---- MODULE Spec2Model ----
(***************************************************************************)
(* Model of the Husqvarna 701 RAG support pipeline:                        *)
(*   core/rag_system.py         HusqvarnaRAGSystem                         *)
(*   core/safety_enhancement.py SafetyEnhancer                             *)
(*   core/response_enhancement.py ResponseEnhancer                         *)
(*   core/response_generation.py ResponseGenerator                         *)
(*   models/embeddings.py       EmbeddingGenerator                         *)
(*   storage/vector_search.py   VectorSearch                               *)
(*                                                                         *)
(* Text is modelled as a sequence of tokens (words and the whitespace      *)
(* token " ") or, where substring search matters, as a sequence of         *)
(* one-character strings.  Similarities returned by the store are integers *)
(* in units of 1/10000; similarities kept in chunks (after round(x, 3))    *)
(* are integers in units of 1/1000.                                        *)
(***************************************************************************)
EXTENDS Integers, Sequences, FiniteSets, TLC

VARIABLES
    use_fallback,   \* HusqvarnaRAGSystem.use_fallback
    probes,         \* how many times the availability probe of __init__ ran
    gen_calls,      \* generate_content calls made on behalf of queries
    queries,        \* number of query() calls handled so far
    call,           \* what the last query() did (inputs, stages, prompt)
    result,         \* the dictionary returned by the last query()
    safety,         \* harness of SafetyEnhancer.assess_safety_level
    asm,            \* harness of the context assembly of generate_response
    cons,           \* harness of _consolidate_similar_chunks
    batch,          \* state of ResponseGenerator.generate_batch_responses
    stats,          \* the dictionary returned by the last get_system_stats()
    rank,           \* harness of ResponseEnhancer.rank_chunks_by_relevance
    conf,           \* harness of the confidence computation
    enh,            \* harness of SafetyEnhancer.enhance_response
    fb,             \* harness of generate_response_fallback
    dup,            \* harness of the two word-overlap duplicate tests
    search,         \* harness of the filter loop of search_similar_chunks
    qual,           \* harness of ResponseEnhancer.validate_response_quality
    vs              \* a VectorSearch object: its cache and its last call

vars == <<use_fallback, probes, gen_calls, queries, call, result,
          safety, asm, cons, batch, stats, rank, conf, enh, fb,
          dup, search, qual, vs>>

ragVars == <<use_fallback, probes, gen_calls, queries, call, result, stats>>

\* the harnesses of ResponseEnhancer, the confidence computation,
\* enhance_response and the fallback composer
lateVars == <<dup, search, qual, vs>>

unitVars == <<rank, conf, enh, fb, lateVars>>

----------------------------------------------------------------------------
(* Bounds of the model *)

MaxQueries == 3

----------------------------------------------------------------------------
(* Small helpers *)

Min(a, b) == IF a <= b THEN a ELSE b

RECURSIVE Digits(_)
Digits(n) == IF n < 10 THEN 1 ELSE 1 + Digits(n \div 10)

----------------------------------------------------------------------------
(* Tokenised text: str.strip(), str.lower(), str.split(), len()            *)

IsSpace(t) == t = " "

Lower(w) ==
    CASE w = "Check" -> "check"
      [] w = "OIL"   -> "oil"
      [] w = "Brake" -> "brake"
      [] OTHER       -> w

RECURSIVE LStrip(_)
LStrip(s) == IF s = <<>> \/ ~IsSpace(Head(s)) THEN s ELSE LStrip(Tail(s))

RECURSIVE RStrip(_)
RStrip(s) ==
    IF s = <<>> \/ ~IsSpace(s[Len(s)]) THEN s ELSE RStrip(SubSeq(s, 1, Len(s) - 1))

Strip(s) == RStrip(LStrip(s))

\* set(content.lower().split())
Words(content) ==
    {Lower(content[i]) : i \in {j \in DOMAIN content : ~IsSpace(content[j])}}

RECURSIVE CharLen(_)
CharLen(s) == IF s = <<>> THEN 0 ELSE Len(Head(s)) + CharLen(Tail(s))

----------------------------------------------------------------------------
(* Word-overlap duplicate test shared by search and consolidation.         *)
(* ratio > num/den is evaluated as |common| * den > num * min(...).        *)

\* the ratio taken over the candidate's own word count instead of the
\* smaller of the two
OverlapExceedsOfContent(content_words, seen_words, num, den) ==
    /\ Cardinality(content_words) > 0
    /\ Cardinality(seen_words) > 0
    /\ Cardinality(content_words \cap seen_words) * den
         > num * Cardinality(content_words)

\* a ratio equal to the threshold taken for a duplicate as well
OverlapReaches(content_words, seen_words, num, den) ==
    /\ Cardinality(content_words) > 0
    /\ Cardinality(seen_words) > 0
    /\ Cardinality(content_words \cap seen_words) * den
         >= num * Min(Cardinality(content_words), Cardinality(seen_words))

OverlapExceeds(content_words, seen_words, num, den) ==
    /\ Cardinality(content_words) > 0
    /\ Cardinality(seen_words) > 0
    /\ Cardinality(content_words \cap seen_words) * den
         > num * Min(Cardinality(content_words), Cardinality(seen_words))

\* similarity_ratio > 0.65 (search) and similarity_ratio > 0.7 (consolidation),
\* both in hundredths
SearchDupPercent == 65
ConsolidateDupPercent == 70

IsDuplicate(content, seen_content, percent) ==
    \E seen \in seen_content :
        OverlapExceeds(Words(content), Words(seen), percent, 100)

----------------------------------------------------------------------------
(* round(x, 3) of a similarity given in 1/10000: result in 1/1000,         *)
(* ties to even.                                                           *)

Round3(x) ==
    LET q == x \div 10
        r == x % 10
    IN  IF r > 5 \/ (r = 5 /\ q % 2 = 1) THEN q + 1 ELSE q

----------------------------------------------------------------------------
(* search_similar_chunks: the filter / de-duplication loop over the rows   *)
(* returned by the store (rag_system.py 109-147).                          *)

ChunkOfRow(row, content) ==
    [chunk_id     |-> row.chunk_id,
     content      |-> content,
     source       |-> row.source,
     page_number  |-> row.page_number,
     safety_level |-> row.safety_level,
     similarity   |-> Round3(row.similarity),
     distance     |-> Round3(10000 - row.similarity)]

RECURSIVE FilterRows(_, _, _, _, _)
FilterRows(results, top_k, similarity_threshold, similar_chunks, seen_content) ==
    IF results = <<>> THEN similar_chunks
    ELSE LET row     == Head(results)
             content == Strip(row.content)
         IN  IF /\ row.similarity >= similarity_threshold
                /\ ~IsDuplicate(content, seen_content, SearchDupPercent)
             THEN LET appended == Append(similar_chunks, ChunkOfRow(row, content))
                  IN  IF Len(appended) >= top_k
                      THEN appended
                      ELSE FilterRows(Tail(results), top_k, similarity_threshold,
                                      appended, seen_content \cup {content})
             ELSE FilterRows(Tail(results), top_k, similarity_threshold,
                             similar_chunks, seen_content)

\* every row of the store's ordering
LimitRowsAll(ordered, top_k) == ordered

\* ORDER BY similarity DESC LIMIT top_k * 3
LimitRows(ordered, top_k) == SubSeq(ordered, 1, Min(3 * top_k, Len(ordered)))

SearchSimilarChunks(ordered, top_k, similarity_threshold) ==
    FilterRows(LimitRows(ordered, top_k), top_k, similarity_threshold, <<>>, {})

----------------------------------------------------------------------------
(* _consolidate_similar_chunks (rag_system.py 198-240)                     *)

\* list.sort(key=similarity, reverse=True): stable, descending
RECURSIVE InsertBySimilarity(_, _)
InsertBySimilarity(sorted, chunk) ==
    IF sorted = <<>> THEN <<chunk>>
    ELSE IF Head(sorted).similarity >= chunk.similarity
         THEN <<Head(sorted)>> \o InsertBySimilarity(Tail(sorted), chunk)
         ELSE <<chunk>> \o sorted

RECURSIVE SortBySimilarity(_)
SortBySimilarity(chunks) ==
    IF chunks = <<>> THEN <<>>
    ELSE InsertBySimilarity(SortBySimilarity(SubSeq(chunks, 1, Len(chunks) - 1)),
                            chunks[Len(chunks)])

\* every chunk taken for a duplicate, the first one included
ConsolidateIsDuplicateAlways(content, used_content) == TRUE

\* the test made against used_content for one chunk (lines 217-231)
ConsolidateIsDuplicate(content, used_content) ==
    IsDuplicate(content, used_content, ConsolidateDupPercent)

RECURSIVE ConsolidateLoop(_, _, _)
ConsolidateLoop(chunks, consolidated, used_content) ==
    IF chunks = <<>> THEN consolidated
    ELSE LET chunk   == Head(chunks)
             content == Strip(chunk.content)
         IN  IF ConsolidateIsDuplicate(content, used_content)
             THEN ConsolidateLoop(Tail(chunks), consolidated, used_content)
             ELSE ConsolidateLoop(Tail(chunks), Append(consolidated, chunk),
                                  used_content \cup {content})

\* the list as the loop leaves it, without the final sort
ConsolidateSimilarChunksUnsorted(chunks) ==
    IF chunks = <<>> THEN chunks
    ELSE ConsolidateLoop(chunks, <<>>, {})

ConsolidateSimilarChunks(chunks) ==
    IF chunks = <<>> THEN chunks
    ELSE SortBySimilarity(ConsolidateLoop(chunks, <<>>, {}))

----------------------------------------------------------------------------
(* generate_response: context assembly (rag_system.py 261-283).            *)
(* Lengths are in characters.  The f-string of one block has 100 fixed     *)
(* characters besides the section number (twice), source, page, safety     *)
(* level, the "{similarity:.1%}" text and the content.                     *)

BlockFixedChars == 100

\* len(f"{similarity:.1%}") for a similarity in 1/1000: "85.0%", "100.0%"
PercentLen(similarity) == Digits(similarity \div 10) + 3

BlockLen(i, chunk) ==
    BlockFixedChars + 2 * Digits(i) + Len(chunk.source)
      + Digits(chunk.page_number) + Digits(chunk.safety_level)
      + PercentLen(chunk.similarity) + CharLen(chunk.content)

\* if current_length + len(chunk_text) <= max_context_length
BlockFits(current_length, block_len, max_context_length) ==
    current_length + block_len <= max_context_length

\* the loop: context_parts is kept as the sequence of the block lengths
RECURSIVE AssembleLoop(_, _, _, _, _)
AssembleLoop(context_chunks, i, max_context_length, context_parts, current_length) ==
    IF i > Len(context_chunks) THEN context_parts
    ELSE LET block_len == BlockLen(i, context_chunks[i])
         IN  IF BlockFits(current_length, block_len, max_context_length)
             THEN AssembleLoop(context_chunks, i + 1, max_context_length,
                               Append(context_parts, block_len),
                               current_length + block_len)
             ELSE context_parts

\* a loop that skips a block that does not fit and goes on to the next
RECURSIVE AssembleLoopSkipping(_, _, _, _, _)
AssembleLoopSkipping(context_chunks, i, max_context_length, context_parts, current_length) ==
    IF i > Len(context_chunks) THEN context_parts
    ELSE LET block_len == BlockLen(i, context_chunks[i])
         IN  IF BlockFits(current_length, block_len, max_context_length)
             THEN AssembleLoopSkipping(context_chunks, i + 1, max_context_length,
                                       Append(context_parts, block_len),
                                       current_length + block_len)
             ELSE AssembleLoopSkipping(context_chunks, i + 1, max_context_length,
                                       context_parts, current_length)

RECURSIVE SumSeq(_)
SumSeq(s) == IF s = <<>> THEN 0 ELSE Head(s) + SumSeq(Tail(s))

\* len("\n".join(context_parts))
JoinLen(context_parts) ==
    IF context_parts = <<>> THEN 0
    ELSE SumSeq(context_parts) + (Len(context_parts) - 1)

AssembleContextSkipping(context_chunks, max_context_length) ==
    LET context_parts == AssembleLoopSkipping(context_chunks, 1, max_context_length, <<>>, 0)
    IN  [parts |-> context_parts, length |-> JoinLen(context_parts)]

AssembleContext(context_chunks, max_context_length) ==
    LET context_parts == AssembleLoop(context_chunks, 1, max_context_length, <<>>, 0)
    IN  [parts |-> context_parts, length |-> JoinLen(context_parts)]

NoContext == [parts |-> <<>>, length |-> 0]

----------------------------------------------------------------------------
(* Responses.  A response text is kept as its structure:                    *)
(*   kind    which code path wrote it                                       *)
(*   warning whether the safety banner is prefixed                          *)
(*   listed  the chunks quoted in the text, in order                        *)
(*   note    the trailing remark of the fallback text                       *)
(*   detail  the message embedded in an error text                          *)

Response(kind, warning, listed, note, detail) ==
    [kind |-> kind, warning |-> warning, listed |-> listed,
     note |-> note, detail |-> detail]

ListedItem(i, chunk) ==
    [i |-> i, source |-> chunk.source, page_number |-> chunk.page_number,
     content |-> Strip(chunk.content), similarity |-> chunk.similarity]

\* the banner decided by the chunks shown only
GenerateResponseFallbackShown(query, context_chunks) ==
    IF context_chunks = <<>>
    THEN Response("fallback_empty", FALSE, <<>>, "none", "")
    ELSE LET consolidated_chunks == ConsolidateSimilarChunks(context_chunks)
             shown == SubSeq(consolidated_chunks, 1,
                             Min(3, Len(consolidated_chunks)))
             high_safety == \E k \in DOMAIN shown : shown[k].safety_level >= 3
             note == IF Len(consolidated_chunks) > 3 THEN "additional"
                     ELSE IF Len(context_chunks) > Len(consolidated_chunks)
                          THEN "consolidated" ELSE "none"
         IN  Response("fallback", high_safety,
                      [k \in DOMAIN shown |-> ListedItem(k, shown[k])],
                      note, "")

\* the note about consolidation given precedence over the note about
\* additional sections
GenerateResponseFallbackNoteFirst(query, context_chunks) ==
    IF context_chunks = <<>>
    THEN Response("fallback_empty", FALSE, <<>>, "none", "")
    ELSE LET consolidated_chunks == ConsolidateSimilarChunks(context_chunks)
             high_safety == \E k \in DOMAIN consolidated_chunks :
                               consolidated_chunks[k].safety_level >= 3
             shown == SubSeq(consolidated_chunks, 1,
                             Min(3, Len(consolidated_chunks)))
             note == IF Len(context_chunks) > Len(consolidated_chunks)
                     THEN "consolidated"
                     ELSE IF Len(consolidated_chunks) > 3
                          THEN "additional" ELSE "none"
         IN  Response("fallback", high_safety,
                      [k \in DOMAIN shown |-> ListedItem(k, shown[k])],
                      note, "")

\* generate_response_fallback (rag_system.py 149-196)
GenerateResponseFallback(query, context_chunks) ==
    IF context_chunks = <<>>
    THEN Response("fallback_empty", FALSE, <<>>, "none", "")
    ELSE LET consolidated_chunks == ConsolidateSimilarChunks(context_chunks)
             high_safety == \E k \in DOMAIN consolidated_chunks :
                               consolidated_chunks[k].safety_level >= 3
             shown == SubSeq(consolidated_chunks, 1,
                             Min(3, Len(consolidated_chunks)))
             note == IF Len(consolidated_chunks) > 3 THEN "additional"
                     ELSE IF Len(context_chunks) > Len(consolidated_chunks)
                          THEN "consolidated" ELSE "none"
         IN  Response("fallback", high_safety,
                      [k \in DOMAIN shown |-> ListedItem(k, shown[k])],
                      note, "")

\* the branch never taken: the generation model is tried whatever the flag
TakesFallbackNever(fallback) == FALSE

\* the branch at the head of generate_response (lines 258-259)
TakesFallback(fallback) == fallback

\* generate_response (rag_system.py 242-339); gen is the outcome of
\* text_model.generate_content for this call
GenerateResponse(fallback, query, context_chunks, max_context_length, gen) ==
    IF TakesFallback(fallback)
    THEN [raised |-> FALSE, model_called |-> FALSE, composer |-> "fallback",
          context |-> NoContext,
          response |-> GenerateResponseFallback(query, context_chunks)]
    ELSE LET context == AssembleContext(context_chunks, max_context_length)
             high_safety == \E k \in DOMAIN context_chunks :
                               context_chunks[k].safety_level >= 3
         IN  IF gen = "ok"
             THEN [raised |-> FALSE, model_called |-> TRUE,
                   composer |-> "generation", context |-> context,
                   response |-> Response("generated", high_safety, <<>>, "none", "")]
             ELSE [raised |-> TRUE, model_called |-> TRUE,
                   composer |-> "generation", context |-> context,
                   response |-> Response("none", FALSE, <<>>, "none",
                                         "GenerationFailed")]

DefaultMaxContextLength == 4000

----------------------------------------------------------------------------
(* EmbeddingGenerator.generate_embeddings for one text (embeddings.py      *)
(* 26-47): a failure of the embedding model is caught and a zero vector is *)
(* put in its place.                                                       *)

GenerateEmbedding(emb) == IF emb = "ok" THEN "real" ELSE "zero"

----------------------------------------------------------------------------
(* The manual corpus as the store sees it.  The table is read-only to the  *)
(* pipeline; for each query text the store answers with the rows ordered   *)
(* by descending similarity to the query vector.                           *)

cOil == <<"Check", " ", "oil", " ", "level">>
cOilUpper == <<" ", "check", " ", "OIL", " ", "level", " ">>
cOilFilter == <<"check", " ", "oil", " ", "filter">>
cBrake == <<"Brake", " ", "fluid">>
cBrakeHot == <<"brake", " ", "fluid", " ", "warning", " ", "toxic">>
cChain == <<"chain", " ", "tension">>
cTire == <<"tire", " ", "pressure">>
cSpark == <<"spark", " ", "plug">>
cBlank == <<" ">>

Row(chunk_id, content, source, page_number, safety_level, similarity) ==
    [chunk_id |-> chunk_id, content |-> content, source |-> source,
     page_number |-> page_number, safety_level |-> safety_level,
     similarity |-> similarity]

UserQueries == {"oil level", "brake fluid", "service plan", "weather", "unknown"}

Table(user_query) ==
    CASE user_query = "oil level" ->
           << Row("c1", cOil,       "owners", 12, 1, 9204),
              Row("c2", cOilUpper,  "owners", 13, 1, 8806),
              Row("c3", cOilFilter, "repair", 30, 2, 8496),
              Row("c4", cBrake,     "repair", 45, 3, 7003),
              Row("c9", cBlank,     "repair",  7, 1, 5504) >>
      [] user_query = "brake fluid" ->
           << Row("c5", cBrakeHot,  "repair", 46, 3, 9496),
              Row("c4", cBrake,     "repair", 45, 3, 9204),
              Row("c9", cBlank,     "repair",  7, 1, 7000),
              Row("c1", cOil,       "owners", 12, 1, 6502) >>
      [] user_query = "service plan" ->
           << Row("c6", cChain,     "owners", 101, 1, 9995),
              Row("c7", cTire,      "owners", 102, 2, 9204),
              Row("c8", cSpark,     "repair", 103, 1, 8496),
              Row("c1", cOil,       "owners", 12, 1, 8011),
              Row("c4", cBrake,     "repair", 45, 3, 7003),
              Row("c3", cOilFilter, "repair", 30, 2, 6502) >>
      [] user_query = "weather" ->
           << Row("c7", cTire,      "owners", 102, 2, 5504),
              Row("c6", cChain,     "owners", 101, 1, 5001) >>
      [] OTHER -> << >>

\* what bq_client.query returns before LIMIT is applied: with the zero
\* vector the cosine similarity of every row is undefined, so no row
\* compares >= a threshold
StoreAnswer(user_query, vector) ==
    IF vector = "zero" THEN << >> ELSE Table(user_query)

TopKs == {1, 3, 5}
Thresholds == {6000, 7000}

----------------------------------------------------------------------------
(* query (rag_system.py 341-412)                                           *)

\* the entry with the chunk's distance in place of its similarity
SourceOfDistance(chunk) ==
    [source |-> chunk.source, page |-> chunk.page_number,
     similarity |-> chunk.distance, safety_level |-> chunk.safety_level]

SourceOf(chunk) ==
    [source |-> chunk.source, page |-> chunk.page_number,
     similarity |-> chunk.similarity, safety_level |-> chunk.safety_level]

\* the empty-result check left out
NoChunksFoundNever(similar_chunks) == FALSE

\* if not similar_chunks (line 365)
NoChunksFound(similar_chunks) == similar_chunks = << >>

NoInfoResult(user_query, fallback) ==
    [query |-> user_query,
     response |-> Response("no_info", FALSE, << >>, "none", ""),
     sources |-> << >>, chunks_found |-> 0, success |-> TRUE,
     fallback_mode |-> fallback]

SuccessResult(user_query, fallback, response, similar_chunks) ==
    [query |-> user_query, response |-> response,
     sources |-> [k \in DOMAIN similar_chunks |-> SourceOf(similar_chunks[k])],
     chunks_found |-> Len(similar_chunks), success |-> TRUE,
     fallback_mode |-> fallback]

\* the except branch without the error field
ErrorResultNoError(user_query, fallback, message) ==
    [query |-> user_query,
     response |-> Response("error", FALSE, << >>, "none", message),
     sources |-> << >>, chunks_found |-> 0, success |-> FALSE,
     fallback_mode |-> fallback]

\* the except branch (lines 402-412)
ErrorResult(user_query, fallback, message) ==
    [query |-> user_query,
     response |-> Response("error", FALSE, << >>, "none", message),
     sources |-> << >>, chunks_found |-> 0, success |-> FALSE,
     error |-> message, fallback_mode |-> fallback]

CallRecord(user_query, top_k, similarity_threshold, emb, vector, store, gen, stages, composer, context) ==
    [user_query |-> user_query, top_k |-> top_k,
     similarity_threshold |-> similarity_threshold,
     emb |-> emb, vector |-> vector, store |-> store, gen |-> gen,
     stages |-> stages, composer |-> composer, context |-> context]

\* the whole of query(): emb, store and gen are the outcomes of the three
\* external calls (embedding model, store, generation model)
RunQuery(fallback, user_query, top_k, similarity_threshold, emb, store, gen) ==
    LET vector == GenerateEmbedding(emb)
    IN  IF store = "fail"
        THEN [result |-> ErrorResult(user_query, fallback, "StoreUnavailable"),
              call   |-> CallRecord(user_query, top_k, similarity_threshold,
                                    emb, vector, store, "not_called",
                                    <<"embed", "search">>, "none", NoContext)]
        ELSE LET similar_chunks ==
                     SearchSimilarChunks(StoreAnswer(user_query, vector),
                                         top_k, similarity_threshold)
             IN  IF NoChunksFound(similar_chunks)
                 THEN [result |-> NoInfoResult(user_query, fallback),
                       call   |-> CallRecord(user_query, top_k, similarity_threshold,
                                             emb, vector, store, "not_called",
                                             <<"embed", "search", "dedupe">>,
                                             "none", NoContext)]
                 ELSE LET g == GenerateResponse(fallback, user_query, similar_chunks,
                                                DefaultMaxContextLength, gen)
                          c == CallRecord(user_query, top_k, similarity_threshold,
                                          emb, vector, store,
                                          IF g.model_called THEN gen ELSE "not_called",
                                          <<"embed", "search", "dedupe", g.composer>>,
                                          g.composer, g.context)
                      IN  IF g.raised
                          THEN [result |-> ErrorResult(user_query, fallback,
                                                       g.response.detail),
                                call   |-> c]
                          ELSE [result |-> SuccessResult(user_query, fallback,
                                                         g.response, similar_chunks),
                                call   |-> c]

----------------------------------------------------------------------------
(* get_system_stats (rag_system.py 414-448)                                *)

\* round(n / d) to the nearest integer, ties to even
RoundRatio(n, d) ==
    LET q == n \div d
        r == n % d
    IN  IF 2 * r < d THEN q
        ELSE IF 2 * r > d THEN q + 1
        ELSE IF q % 2 = 0 THEN q ELSE q + 1

\* the one row the statistics query returns: for an empty table the counts
\* are 0 and the aggregates NULL; avg_safety_level is in units of 1/1000
StatsRow(total_chunks, chunks_with_embeddings, unique_sources, avg_safety_level, min_safety_level, max_safety_level) ==
    [total_chunks |-> total_chunks,
     chunks_with_embeddings |-> chunks_with_embeddings,
     unique_sources |-> unique_sources,
     avg_safety_level |-> avg_safety_level,
     min_safety_level |-> min_safety_level,
     max_safety_level |-> max_safety_level]

EmptyTableRow == StatsRow(0, 0, 0, "None", "None", "None")

StatsRows ==
    { EmptyTableRow,
      StatsRow(9, 9, 2, 1556, 1, 3),
      StatsRow(16, 1, 1, 1000, 1, 1) }

\* the dictionary of the try branch (lines 434-444); embedding_coverage is
\* in units of 0.1 percent, avg_safety_level in units of 1/100
StatsResult(fallback, row) ==
    [total_chunks |-> row.total_chunks,
     chunks_with_embeddings |-> row.chunks_with_embeddings,
     embedding_coverage |->
         RoundRatio(row.chunks_with_embeddings * 1000, row.total_chunks),
     unique_sources |-> row.unique_sources,
     avg_safety_level |-> RoundRatio(row.avg_safety_level, 10),
     safety_level_range |-> <<row.min_safety_level, row.max_safety_level>>,
     text_generation_mode |-> IF fallback THEN "fallback" ELSE "gemini"]

\* the except branch (lines 446-448)
StatsError(message) == [error |-> message]

\* the whole of get_system_stats(): store is the outcome of the statistics
\* query, row the row it returns
GetSystemStats(fallback, store, row) ==
    IF store = "fail" THEN StatsError("StoreUnavailable")
    ELSE IF row.total_chunks = 0 THEN StatsError("division by zero")
    ELSE StatsResult(fallback, row)

----------------------------------------------------------------------------
(* State of the components that are idle in a specification                *)

NoCall ==
    CallRecord("", 0, 0, "ok", "real", "ok", "not_called", << >>, "none", NoContext)

NoResult == NoInfoResult("", FALSE)

IdleSafety == [query |-> << >>, level |-> 0, done |-> FALSE]
IdleAsm == [chunks |-> << >>, max_context_length |-> 0,
               context |-> NoContext, done |-> FALSE]
IdleCons == [chunks |-> << >>, once |-> << >>, twice |-> << >>, done |-> FALSE]
IdleBatch == [queries |-> << >>, outcomes |-> << >>, i |-> 0,
               responses |-> << >>, pc |-> "idle"]
NoStats == [called |-> FALSE]
IdleRank == [query |-> << >>, chunks |-> << >>, ranked |-> << >>, done |-> FALSE]
IdleConf == [chunks |-> << >>, confidence |-> [num |-> 0, den |-> 1],
             done |-> FALSE]
IdleEnh == [response |-> << >>, safety_level |-> 0, chunks |-> << >>,
            safety_info |-> << >>, enhanced |-> << >>, done |-> FALSE]
IdleFb == [chunks |-> << >>, response |-> Response("none", FALSE, << >>, "none", ""),
           done |-> FALSE]

IdleDup == [chunks |-> << >>, searched |-> << >>, consolidated |-> << >>,
            done |-> FALSE]
IdleSearch == [results |-> << >>, top_k |-> 0, similarity_threshold |-> 0,
               similar_chunks |-> << >>, done |-> FALSE]
IdleQual == [response |-> << >>, query |-> << >>, chunks |-> << >>,
             outcome |-> [raised |-> FALSE], done |-> FALSE]
\* a VectorSearch object as __init__ leaves it (vector_search.py 15-25)
IdleVs == [cache |-> << >>, backend_calls |-> 0, calls |-> 0,
           last |-> [op |-> "none"]]

IdleLate ==
    /\ dup = IdleDup
    /\ search = IdleSearch
    /\ qual = IdleQual
    /\ vs = IdleVs

IdleUnits ==
    /\ rank = IdleRank
    /\ conf = IdleConf
    /\ enh = IdleEnh
    /\ fb = IdleFb
    /\ IdleLate

----------------------------------------------------------------------------
(* The RAG system: construction and query()                                *)

\* __init__ (rag_system.py 47-61): one probe of the generation model
Init ==
    /\ \E probe \in {"ok", "unavailable"} : use_fallback = (probe # "ok")
    /\ probes = 1
    /\ gen_calls = 0
    /\ queries = 0
    /\ call = NoCall
    /\ result = NoResult
    /\ stats = NoStats
    /\ safety = IdleSafety
    /\ asm = IdleAsm
    /\ cons = IdleCons
    /\ batch = IdleBatch
    /\ IdleUnits

Query(user_query, top_k, similarity_threshold, emb, store, gen) ==
    /\ queries < MaxQueries
    /\ LET r == RunQuery(use_fallback, user_query, top_k, similarity_threshold,
                         emb, store, gen)
       IN  /\ result' = r.result
           /\ call' = r.call
           /\ gen_calls' = gen_calls + (IF r.call.gen # "not_called" THEN 1 ELSE 0)
    /\ queries' = queries + 1
    /\ UNCHANGED <<use_fallback, probes, stats, safety, asm, cons, batch, unitVars>>

QueryAny ==
    \E user_query \in UserQueries, top_k \in TopKs,
       similarity_threshold \in Thresholds,
       emb \in {"ok", "fail"}, store \in {"ok", "fail"}, gen \in {"ok", "fail"} :
        Query(user_query, top_k, similarity_threshold, emb, store, gen)

SystemStats(store, row) ==
    /\ stats' = [called |-> TRUE, store |-> store, row |-> row,
                 returned |-> GetSystemStats(use_fallback, store, row)]
    /\ UNCHANGED <<use_fallback, probes, gen_calls, queries, call, result,
                   safety, asm, cons, batch, unitVars>>

\* the statistics query answers, or fails before any row is read
SystemStatsAny ==
    \/ \E row \in StatsRows : SystemStats("ok", row)
    \/ SystemStats("fail", EmptyTableRow)

Next == QueryAny \/ SystemStatsAny

Spec == Init /\ [][Next]_vars

----------------------------------------------------------------------------
(* SafetyEnhancer (safety_enhancement.py).  Here text is a sequence of     *)
(* one-character strings, so that `keyword in query_lower` and re.search   *)
(* are substring searches as in the code.  The character U+2014 (em dash)  *)
(* is written "u2014".                                                     *)

UpperCase == <<"A","B","C","D","E","F","G","H","I","J","K","L","M",
               "N","O","P","Q","R","S","T","U","V","W","X","Y","Z">>
LowerCase == <<"a","b","c","d","e","f","g","h","i","j","k","l","m",
               "n","o","p","q","r","s","t","u","v","w","x","y","z">>

LowerChar(c) ==
    IF \E i \in DOMAIN UpperCase : UpperCase[i] = c
    THEN LowerCase[CHOOSE i \in DOMAIN UpperCase : UpperCase[i] = c]
    ELSE c

\* str.lower()
LowerText(text) == [i \in DOMAIN text |-> LowerChar(text[i])]

\* `sub in text`
Contains(text, sub) ==
    \E i \in 1..(Len(text) - Len(sub) + 1) :
        SubSeq(text, i, i + Len(sub) - 1) = sub

\* "fire" taken for a keyword as well (it is one of ResponseEnhancer's
\* safety_indicators, not of SafetyEnhancer's safety_keywords)
SafetyKeywordsWithFire ==
    << <<"d", "a", "n", "g", "e", "r">>,
       <<"w", "a", "r", "n", "i", "n", "g">>,
       <<"c", "a", "u", "t", "i", "o", "n">>,
       <<"r", "i", "s", "k">>,
       <<"h", "a", "z", "a", "r", "d">>,
       <<"s", "a", "f", "e", "t", "y">>,
       <<"c", "r", "i", "t", "i", "c", "a", "l">>,
       <<"e", "m", "e", "r", "g", "e", "n", "c", "y">>,
       <<"p", "o", "i", "s", "o", "n">>,
       <<"t", "o", "x", "i", "c">>,
       <<"s", "c", "a", "l", "d", "i", "n", "g">>,
       <<"b", "u", "r", "n">>,
       <<"i", "n", "j", "u", "r", "y">>,
       <<"a", "c", "c", "i", "d", "e", "n", "t">>,
       <<"d", "e", "a", "t", "h">>,
       <<"f", "i", "r", "e">> >>

\* self.safety_keywords (lines 17-21)
SafetyKeywords ==
    << <<"d", "a", "n", "g", "e", "r">>,
       <<"w", "a", "r", "n", "i", "n", "g">>,
       <<"c", "a", "u", "t", "i", "o", "n">>,
       <<"r", "i", "s", "k">>,
       <<"h", "a", "z", "a", "r", "d">>,
       <<"s", "a", "f", "e", "t", "y">>,
       <<"c", "r", "i", "t", "i", "c", "a", "l">>,
       <<"e", "m", "e", "r", "g", "e", "n", "c", "y">>,
       <<"p", "o", "i", "s", "o", "n">>,
       <<"t", "o", "x", "i", "c">>,
       <<"s", "c", "a", "l", "d", "i", "n", "g">>,
       <<"b", "u", "r", "n">>,
       <<"i", "n", "j", "u", "r", "y">>,
       <<"a", "c", "c", "i", "d", "e", "n", "t">>,
       <<"d", "e", "a", "t", "h">> >>

\* self.safety_patterns (lines 23-32): every pattern is a literal followed
\* by [^.]*, kept here as the literal
SafetyPatterns ==
    << <<"d", "a", "n", "g", "e", "r", " ", "o", "f", " ">>,
       <<"w", "a", "r", "n", "i", "n", "g">>,
       <<"c", "a", "u", "t", "i", "o", "n">>,
       <<"r", "i", "s", "k", " ", "o", "f", " ">>,
       <<"h", "a", "z", "a", "r", "d">>,
       <<"s", "a", "f", "e", "t", "y">>,
       <<"c", "r", "i", "t", "i", "c", "a", "l">>,
       <<"e", "m", "e", "r", "g", "e", "n", "c", "y">> >>

\* re.search(literal + "[^.]*", text): the literal occurs somewhere; the
\* tail [^.]* matches any run of characters other than ".", also the empty one
RegexSearch(literal, text) == Contains(text, literal)

\* sum(1 for keyword in self.safety_keywords if keyword in query_lower)
KeywordCount(query_lower) ==
    Cardinality({k \in DOMAIN SafetyKeywords :
                    Contains(query_lower, SafetyKeywords[k])})

\* sum(1 for pattern in self.safety_patterns if re.search(pattern, query_lower))
PatternMatches(query_lower) ==
    Cardinality({k \in DOMAIN SafetyPatterns :
                    RegexSearch(SafetyPatterns[k], query_lower)})

\* the cascade with the level-3 keyword test off by one
SafetyCascadeStrict(safety_count, pattern_matches) ==
    IF safety_count > 3 \/ pattern_matches >= 2 THEN 3
    ELSE IF safety_count >= 2 \/ pattern_matches >= 1 THEN 2
    ELSE IF safety_count >= 1 THEN 1
    ELSE 0

\* the cascade (lines 57-64)
SafetyCascade(safety_count, pattern_matches) ==
    IF safety_count >= 3 \/ pattern_matches >= 2 THEN 3
    ELSE IF safety_count >= 2 \/ pattern_matches >= 1 THEN 2
    ELSE IF safety_count >= 1 THEN 1
    ELSE 0

\* assess_safety_level (lines 34-64)
AssessSafetyLevel(query) ==
    LET query_lower == LowerText(query)
    IN  SafetyCascade(KeywordCount(query_lower), PatternMatches(query_lower))

\* Queries handed to assess_safety_level: up to MaxSafetyWords words of a
\* small vocabulary separated by single spaces, and the query of the
\* end-to-end scenario.
MaxSafetyWords == 3

SafetyVocab ==
    { <<"D", "a", "n", "g", "e", "r">>,
      <<"w", "a", "r", "n", "i", "n", "g">>,
      <<"r", "i", "s", "k">>,
      <<"o", "f">>,
      <<"f", "i", "r", "e">>,
      <<"b", "u", "r", "n", "i", "n", "g">>,
      <<"t", "o", "x", "i", "c">>,
      <<"o", "i", "l">> }

RECURSIVE JoinWords(_)
JoinWords(ws) ==
    IF ws = << >> THEN << >>
    ELSE IF Len(ws) = 1 THEN ws[1]
    ELSE ws[1] \o <<" ">> \o JoinWords(Tail(ws))

DangerQuery ==
    <<"D", "a", "n", "g", "e", "r", " ", "u2014", " ", 
       "e", "n", "g", "i", "n", "e", " ", 
       "o", "v", "e", "r", "h", "e", "a", "t", "s", ",", " ", 
       "r", "i", "s", "k", " ", "o", "f", " ", "f", "i", "r", "e">>

SafetyQueries ==
    {JoinWords(ws) : ws \in UNION {[1..n -> SafetyVocab] : n \in 0..MaxSafetyWords}}
      \cup {DangerQuery}

IdleRag ==
    /\ use_fallback = FALSE
    /\ probes = 0
    /\ gen_calls = 0
    /\ queries = 0
    /\ call = NoCall
    /\ result = NoResult
    /\ stats = NoStats

InitSafety ==
    /\ IdleRag
    /\ IdleUnits
    /\ \E q \in SafetyQueries : safety = [query |-> q, level |-> 0, done |-> FALSE]
    /\ asm = IdleAsm
    /\ cons = IdleCons
    /\ batch = IdleBatch

AssessSafety ==
    /\ ~safety.done
    /\ safety' = [safety EXCEPT !.level = AssessSafetyLevel(safety.query),
                                !.done = TRUE]
    /\ UNCHANGED <<ragVars, asm, cons, batch, unitVars>>

NextSafety == AssessSafety

SpecSafety == InitSafety /\ [][NextSafety]_vars

----------------------------------------------------------------------------
(* Claims about assess_safety_level, under SpecSafety                      *)

QueryKeywordCount == KeywordCount(LowerText(safety.query))
QueryPatternMatches == PatternMatches(LowerText(safety.query))

\* C2 as stated: assess_safety_level("Danger - engine overheats, risk of
\* fire") returns 3 because danger, risk and fire are three keyword matches.
C2_DangerQueryIsLevel3 ==
    (safety.done /\ safety.query = DangerQuery) => safety.level = 3

\* C2 amended: for that query assess_safety_level returns 2: the keywords
\* matched are exactly danger and risk ("fire" is not a safety keyword) and
\* exactly one pattern ("risk of ...") matches.
C2_DangerQueryIsLevel2 ==
    (safety.done /\ safety.query = DangerQuery) =>
        /\ safety.level = 2
        /\ {k \in DOMAIN SafetyKeywords :
               Contains(LowerText(safety.query), SafetyKeywords[k])} = {1, 4}
        /\ QueryPatternMatches = 1

C2_Witness == safety.done /\ safety.query = DangerQuery /\ safety.level = 2

\* C3 as stated: exactly 3 keywords and no pattern gives 3, exactly 1
\* keyword gives 1, no keyword gives 0.
C3_CascadeAsStated ==
    safety.done =>
        /\ (QueryKeywordCount = 3 /\ QueryPatternMatches = 0) => safety.level = 3
        /\ QueryKeywordCount = 1 => safety.level = 1
        /\ QueryKeywordCount = 0 => safety.level = 0

\* C3 amended: exactly 3 keywords and no pattern gives 3; exactly 1 keyword
\* gives 1 when no pattern matches and 2 when a pattern matches; no keyword
\* gives 0; and the level is that of the cascade evaluated level 3 first.
C3_Cascade ==
    safety.done =>
        /\ (QueryKeywordCount = 3 /\ QueryPatternMatches = 0) => safety.level = 3
        /\ (QueryKeywordCount = 1 /\ QueryPatternMatches = 0) => safety.level = 1
        /\ (QueryKeywordCount = 1 /\ QueryPatternMatches >= 1) => safety.level = 2
        /\ QueryKeywordCount = 0 => safety.level = 0
        /\ safety.level = 3 <=> (QueryKeywordCount >= 3 \/ QueryPatternMatches >= 2)
        /\ safety.level = 2 <=>
              /\ ~(QueryKeywordCount >= 3 \/ QueryPatternMatches >= 2)
              /\ (QueryKeywordCount >= 2 \/ QueryPatternMatches >= 1)
        /\ safety.level = 1 <=>
              /\ QueryKeywordCount = 1
              /\ QueryPatternMatches = 0

C3_Witness ==
    /\ safety.done
    /\ QueryKeywordCount = 3
    /\ QueryPatternMatches = 0
    /\ safety.level = 3

----------------------------------------------------------------------------
(* generate_response's context assembly as a function of its arguments:    *)
(* every list of up to MaxAsmChunks retrieved chunks and every budget up   *)
(* to MaxAsmBudget, and the default budget.                                *)

MaxAsmChunks == 3
MaxAsmBudget == 400

AsmChunks ==
    { [chunk_id |-> "c1", content |-> cOil, source |-> "owners",
       page_number |-> 12, safety_level |-> 1, similarity |-> 920, distance |-> 80],
      [chunk_id |-> "c4", content |-> cBrake, source |-> "repair",
       page_number |-> 45, safety_level |-> 3, similarity |-> 1000, distance |-> 0],
      [chunk_id |-> "c9", content |-> << >>, source |-> "repair",
       page_number |-> 7, safety_level |-> 1, similarity |-> 55, distance |-> 945] }

AsmChunkLists == UNION {[1..n -> AsmChunks] : n \in 0..MaxAsmChunks}

AsmBudgets == (0..MaxAsmBudget) \cup {DefaultMaxContextLength}

InitAssemble ==
    /\ IdleRag
    /\ IdleUnits
    /\ safety = IdleSafety
    /\ \E chunks \in AsmChunkLists, budget \in AsmBudgets :
          asm = [chunks |-> chunks, max_context_length |-> budget,
                 context |-> NoContext, done |-> FALSE]
    /\ cons = IdleCons
    /\ batch = IdleBatch

Assemble ==
    /\ ~asm.done
    /\ asm' = [asm EXCEPT
                 !.context = AssembleContext(asm.chunks, asm.max_context_length),
                 !.done = TRUE]
    /\ UNCHANGED <<ragVars, safety, cons, batch, unitVars>>

NextAssemble == Assemble

SpecAssemble == InitAssemble /\ [][NextAssemble]_vars

\* C1: the joined context text, separators included, is never longer than
\* max_context_length.
C1_ContextWithinBudget ==
    asm.done => asm.context.length <= asm.max_context_length

\* C26: the blocks of the assembled context are those of a prefix of the
\* input list, each one whole; assembly stops at the first block that would
\* take the running length over the budget and includes no later block,
\* even one that would fit.
C26_IncludedBlocksArePrefix ==
    asm.done =>
        LET included == Len(asm.context.parts)
        IN  /\ included <= Len(asm.chunks)
            /\ \A k \in 1..included :
                  asm.context.parts[k] = BlockLen(k, asm.chunks[k])
            /\ SumSeq(asm.context.parts) <= asm.max_context_length
            /\ included < Len(asm.chunks) =>
                  SumSeq(asm.context.parts)
                    + BlockLen(included + 1, asm.chunks[included + 1])
                       > asm.max_context_length

\* the second block overflows and the third, which would fit, is left out
C26_Witness ==
    /\ asm.done
    /\ Len(asm.chunks) = 3
    /\ Len(asm.context.parts) = 1
    /\ BlockFits(SumSeq(asm.context.parts), BlockLen(3, asm.chunks[3]),
                 asm.max_context_length)

----------------------------------------------------------------------------
(* Claims about query(), under Spec                                        *)

StageRan(stage) == \E k \in DOMAIN call.stages : call.stages[k] = stage

\* C4: when the probe passed and generate_content fails during a query, the
\* query is answered by the fallback composer and has success = true.
C4_GenerationFailureFallsBack ==
    (queries > 0 /\ ~use_fallback /\ call.gen = "fail") =>
        /\ result.success = TRUE
        /\ result.response.kind = "fallback"

\* C5: when the embedding of the query text fails, query() does not run the
\* similarity search and returns success = false with a message.
C5_EmbeddingFailureAborts ==
    (queries > 0 /\ call.emb = "fail") =>
        /\ ~StageRan("search")
        /\ result.success = FALSE
        /\ "error" \in DOMAIN result

\* C6: query() always returns a dictionary; a failed store search gives
\* success = false, the error field with the message, no sources and
\* chunks_found = 0; every failed result has the error field and every
\* result has fallback_mode.
C6_QueryNeverRaises ==
    queries > 0 =>
        /\ {"query", "response", "sources", "chunks_found", "success",
            "fallback_mode"} \subseteq DOMAIN result
        /\ result.fallback_mode = use_fallback
        /\ result.success = FALSE => "error" \in DOMAIN result
        /\ call.store = "fail" =>
              /\ result.success = FALSE
              /\ "error" \in DOMAIN result
              /\ result.error = "StoreUnavailable"
              /\ result.response.kind = "error"
              /\ result.response.detail = "StoreUnavailable"
              /\ result.sources = << >>
              /\ result.chunks_found = 0

C6_Witness ==
    queries > 0 /\ call.store = "fail" /\ result.success = FALSE

\* the rows the search looked at in the last query
RowsSeen == LimitRows(StoreAnswer(call.user_query, call.vector), call.top_k)

NoCandidateAtThreshold ==
    \A k \in DOMAIN RowsSeen : RowsSeen[k].similarity < call.similarity_threshold

\* C7: a search with no candidate at or above the threshold returns
\* success = true, chunks_found = 0, no sources and the "no relevant
\* information" message, calls neither the generation model nor the fallback
\* composer, and reports no error.
C7_NoCandidatesIsNotAnError ==
    (queries > 0 /\ call.store = "ok" /\ NoCandidateAtThreshold) =>
        /\ result.success = TRUE
        /\ result.chunks_found = 0
        /\ result.sources = << >>
        /\ result.response.kind = "no_info"
        /\ "error" \notin DOMAIN result
        /\ call.composer = "none"
        /\ call.gen = "not_called"
        /\ ~StageRan("generation")
        /\ ~StageRan("fallback")

C7_Witness ==
    /\ queries > 0
    /\ call.store = "ok"
    /\ RowsSeen # << >>
    /\ NoCandidateAtThreshold
    /\ result.response.kind = "no_info"

----------------------------------------------------------------------------
(* _consolidate_similar_chunks as a function of its argument: every list   *)
(* of up to MaxConsChunks chunks over contents that overlap in 0, 1/3,     *)
(* 2/3 or all of their words.                                              *)

MaxConsChunks == 3

cOilLong == <<"check", " ", "oil", " ", "level", " ", "filter">>
cOilWord == <<"OIL">>

ConsContents == {cOil, cOilFilter, cOilLong, cOilWord, cBlank}
ConsSimilarities == {700, 920}

ConsChunks ==
    { [chunk_id |-> "c", content |-> c, source |-> "owners", page_number |-> 12,
       safety_level |-> 1, similarity |-> sim, distance |-> 1000 - sim] :
         c \in ConsContents, sim \in ConsSimilarities }

ConsChunkLists == UNION {[1..n -> ConsChunks] : n \in 0..MaxConsChunks}

InitConsolidate ==
    /\ IdleRag
    /\ IdleUnits
    /\ safety = IdleSafety
    /\ asm = IdleAsm
    /\ \E chunks \in ConsChunkLists :
          cons = [chunks |-> chunks, once |-> << >>, twice |-> << >>,
                  done |-> FALSE]
    /\ batch = IdleBatch

\* consolidation applied to a list, and again to its own output
Consolidate ==
    /\ ~cons.done
    /\ LET once == ConsolidateSimilarChunks(cons.chunks)
       IN  cons' = [cons EXCEPT !.once = once,
                                !.twice = ConsolidateSimilarChunks(once),
                                !.done = TRUE]
    /\ UNCHANGED <<ragVars, safety, asm, batch, unitVars>>

NextConsolidate == Consolidate

SpecConsolidate == InitConsolidate /\ [][NextConsolidate]_vars

\* C10: consolidating a consolidated list changes nothing: the same chunks
\* in the same order.
C10_ConsolidateIdempotent == cons.done => cons.twice = cons.once

C10_Witness ==
    /\ cons.done
    /\ Len(cons.once) >= 2
    /\ Len(cons.once) < Len(cons.chunks)
    /\ cons.once # ConsolidateLoop(cons.chunks, << >>, {})

----------------------------------------------------------------------------
(* Order and size of the consolidated list, under SpecConsolidate          *)

\* s is t with some of its elements left out
RECURSIVE IsSubsequence(_, _)
IsSubsequence(s, t) ==
    IF s = << >> THEN TRUE
    ELSE IF t = << >> THEN FALSE
    ELSE IF Head(s) = Head(t) THEN IsSubsequence(Tail(s), Tail(t))
    ELSE IsSubsequence(s, Tail(t))

\* the order consolidated.sort(key=similarity, reverse=True) leaves
SortedBySimilarity(chunks) ==
    \A i, j \in DOMAIN chunks :
        i < j => chunks[i].similarity >= chunks[j].similarity

WithSimilarity(chunks, sim) ==
    SelectSeq(chunks, LAMBDA c : c.similarity = sim)

\* C11 as stated: for every input list, sorted by similarity or not, the
\* chunks that survive de-duplication appear in the output in the same
\* relative order as in the input (the output is a subsequence of the input).
C11_OrderPreserved ==
    cons.done => IsSubsequence(cons.once, cons.chunks)

\* C11 amended: the consolidated list is in descending order of similarity,
\* chunks of equal similarity keep their input order, and the output is a
\* subsequence of the input whenever the input is already in descending
\* order of similarity.
C11_OrderPreservedWhenSorted ==
    cons.done =>
        /\ SortedBySimilarity(cons.once)
        /\ \A sim \in ConsSimilarities :
              IsSubsequence(WithSimilarity(cons.once, sim),
                            WithSimilarity(cons.chunks, sim))
        /\ SortedBySimilarity(cons.chunks)
              => IsSubsequence(cons.once, cons.chunks)

C11_Witness ==
    /\ cons.done
    /\ SortedBySimilarity(cons.chunks)
    /\ Len(cons.once) = 2
    /\ Len(cons.chunks) = 3
    /\ cons.once[1].similarity > cons.once[2].similarity
    /\ cons.once[2] = cons.chunks[3]

\* C12: consolidation never returns more chunks than it was given, every
\* chunk it returns is one of the chunks it was given (no chunk twice as
\* often as in the input), and a non-empty input gives a non-empty output
\* that holds the first input chunk.
C12_ConsolidateShrinks ==
    cons.done =>
        /\ Len(cons.once) <= Len(cons.chunks)
        /\ \E f \in [DOMAIN cons.once -> DOMAIN cons.chunks] :
              /\ \A i, j \in DOMAIN cons.once : i # j => f[i] # f[j]
              /\ \A i \in DOMAIN cons.once : cons.once[i] = cons.chunks[f[i]]
        /\ cons.chunks # << >> =>
              /\ cons.once # << >>
              /\ \E i \in DOMAIN cons.once : cons.once[i] = cons.chunks[1]

C12_Witness ==
    /\ cons.done
    /\ Len(cons.chunks) = 3
    /\ Len(cons.once) = 1
    /\ cons.once[1] = cons.chunks[1]
    /\ cons.chunks[2] # cons.chunks[1]

----------------------------------------------------------------------------
(* ResponseGenerator.generate_batch_responses (response_generation.py     *)
(* 118-154): a loop over zip(queries, contexts), one step per pair.        *)

MaxBatch == 3

BatchQueryTexts == {"oil level", "brake fluid"}

BatchQueryLists == UNION {[1..n -> BatchQueryTexts] : n \in 0..MaxBatch}

\* the context that corresponds to a query
ContextOf(query) == <<"context", query>>

\* what generate_response returns for a query and its context
GeneratedText(query, context) ==
    [kind |-> "response", query |-> query, context |-> context, message |-> ""]

ErrorText(message) ==
    [kind |-> "error", query |-> "", context |-> << >>, message |-> message]

\* the except branch dropping the failed query
BatchOnErrorSkip(responses, message) == responses

\* except Exception as e: responses.append(f"Error generating response: ...")
BatchOnError(responses, message) == Append(responses, ErrorText(message))

\* len(list(zip(queries, contexts)))
ZipLen(queries_, contexts) == Min(Len(queries_), Len(contexts))

InitBatch ==
    /\ IdleRag
    /\ IdleUnits
    /\ safety = IdleSafety
    /\ asm = IdleAsm
    /\ cons = IdleCons
    /\ \E qs \in BatchQueryLists :
          batch = [queries |-> qs,
                   contexts |-> [k \in DOMAIN qs |-> ContextOf(qs[k])],
                   outcomes |-> << >>, i |-> 0, responses |-> << >>,
                   pc |-> "loop"]

\* one iteration: generate_response for pair i either returns or raises
BatchGenerate(outcome) ==
    /\ batch.pc = "loop"
    /\ batch.i < ZipLen(batch.queries, batch.contexts)
    /\ LET k == batch.i + 1
       IN  batch' = [batch EXCEPT
             !.i = k,
             !.outcomes = Append(@, outcome),
             !.responses =
                 IF outcome = "ok"
                 THEN Append(@, GeneratedText(batch.queries[k], batch.contexts[k]))
                 ELSE BatchOnError(@, "GenerationFailed")]
    /\ UNCHANGED <<ragVars, safety, asm, cons, unitVars>>

BatchGenerateOk == BatchGenerate("ok")
BatchGenerateFails == BatchGenerate("fail")

\* return responses
BatchReturn ==
    /\ batch.pc = "loop"
    /\ batch.i = ZipLen(batch.queries, batch.contexts)
    /\ batch' = [batch EXCEPT !.pc = "done"]
    /\ UNCHANGED <<ragVars, safety, asm, cons, unitVars>>

NextBatch == BatchGenerateOk \/ BatchGenerateFails \/ BatchReturn

SpecBatch == InitBatch /\ [][NextBatch]_vars

\* C9: the batch returns one outcome per query, in input order; a failure
\* at position i is an error value at position i and every other position
\* holds the response to its own query.
C9_BatchOneOutcomePerQuery ==
    /\ Len(batch.responses) = batch.i
    /\ batch.pc = "done" =>
          /\ Len(batch.responses) = Len(batch.queries)
          /\ \A k \in DOMAIN batch.queries :
                /\ batch.outcomes[k] = "ok" =>
                      batch.responses[k] =
                          GeneratedText(batch.queries[k], batch.contexts[k])
                /\ batch.outcomes[k] = "fail" =>
                      batch.responses[k] = ErrorText("GenerationFailed")

C9_Witness ==
    /\ batch.pc = "done"
    /\ batch.outcomes = <<"ok", "fail", "ok">>
    /\ Len(batch.responses) = 3
    /\ batch.responses[1].kind = "response"
    /\ batch.responses[2].kind = "error"
    /\ batch.responses[3].kind = "response"

----------------------------------------------------------------------------
(* ResponseEnhancer.rank_chunks_by_relevance (response_enhancement.py      *)
(* 66-112).  Contents and queries are sequences of one-character strings;  *)
(* U+00B0 (degree sign) is written "u00B0" and U+2022 (bullet) "u2022".    *)
(* Scores are integers in units of 1/1000.                                  *)

MaintenanceKeywords ==
    { <<"s", "e", "r", "v", "i", "c", "e">>,
      <<"m", "a", "i", "n", "t", "e", "n", "a", "n", "c", "e">>,
      <<"c", "h", "e", "c", "k">>,
      <<"i", "n", "s", "p", "e", "c", "t">>,
      <<"r", "e", "p", "l", "a", "c", "e">>,
      <<"a", "d", "j", "u", "s", "t">>,
      <<"c", "l", "e", "a", "n">>,
      <<"l", "u", "b", "r", "i", "c", "a", "t", "e">>,
      <<"t", "i", "g", "h", "t", "e", "n">>,
      <<"t", "o", "r", "q", "u", "e">>,
      <<"i", "n", "t", "e", "r", "v", "a", "l">> }

SafetyIndicators ==
    { <<"w", "a", "r", "n", "i", "n", "g">>,
      <<"d", "a", "n", "g", "e", "r">>,
      <<"c", "a", "u", "t", "i", "o", "n">>,
      <<"r", "i", "s", "k">>,
      <<"s", "a", "f", "e", "t", "y">>,
      <<"h", "a", "z", "a", "r", "d">>,
      <<"i", "n", "j", "u", "r", "y">>,
      <<"d", "e", "a", "t", "h">>,
      <<"f", "i", "r", "e">>,
      <<"e", "x", "p", "l", "o", "s", "i", "o", "n">>,
      <<"t", "o", "x", "i", "c">>,
      <<"h", "o", "t">> }

\* the units of the eight patterns of _has_technical_data, each after \d+\s*
TechnicalUnits ==
    { <<"m", "m">>,
      <<"c", "m">>,
      <<"m">>,
      <<"i", "n">>,
      <<"f", "t">>,
      <<"r", "p", "m">>,
      <<"m", "p", "h">>,
      <<"k", "m", "/", "h">>,
      <<"b", "a", "r">>,
      <<"p", "s", "i">>,
      <<"p", "a">>,
      <<"u00B0", "c">>,
      <<"u00B0", "f">>,
      <<"c", "e", "l", "s", "i", "u", "s">>,
      <<"f", "a", "h", "r", "e", "n", "h", "e", "i", "t">>,
      <<"n", "m">>,
      <<"f", "t", "-", "l", "b">>,
      <<"m", "l">>,
      <<"l">>,
      <<"o", "z">>,
      <<"q", "t">>,
      <<"k", "g">>,
      <<"l", "b">>,
      <<"g">>,
      <<"v">>,
      <<"v", "o", "l", "t">>,
      <<"a", "m", "p">> }

IsDigit(c) == c \in {"0", "1", "2", "3", "4", "5", "6", "7", "8", "9"}

\* \s
IsWhitespace(c) == c \in {" ", "\n", "\t"}

\* text has `sub` starting at position i, letter case ignored
HasAt(text, i, sub) ==
    /\ i >= 1
    /\ i + Len(sub) - 1 <= Len(text)
    /\ LowerText(SubSeq(text, i, i + Len(sub) - 1)) = sub

\* str.split(): the maximal runs of non-whitespace characters, as a set
SplitWords(text) ==
    { SubSeq(text, i, j) : <<i, j>> \in
        { p \in (DOMAIN text) \X (DOMAIN text) :
            /\ p[1] <= p[2]
            /\ \A k \in p[1]..p[2] : ~IsWhitespace(text[k])
            /\ (p[1] = 1 \/ IsWhitespace(text[p[1] - 1]))
            /\ (p[2] = Len(text) \/ IsWhitespace(text[p[2] + 1])) } }

\* query_terms = set(query.lower().split())
QueryTerms(query) == SplitWords(LowerText(query))

\* sum(1 for term in query_terms if term in content_lower)
ExactMatches(query, content) ==
    Cardinality({ term \in QueryTerms(query) : Contains(LowerText(content), term) })

\* a count of every occurrence of every keyword
MaintenanceMatchesPerOccurrence(content) ==
    Cardinality({ p \in MaintenanceKeywords \X (DOMAIN content) :
                    HasAt(content, p[2], p[1]) })

MaintenanceMatches(content) ==
    Cardinality({ term \in MaintenanceKeywords : Contains(LowerText(content), term) })

\* _has_structured_content (lines 114-124), re.IGNORECASE
HasStructuredContent(content) ==
    \/ \E i \in DOMAIN content :
          IsDigit(content[i]) /\ HasAt(content, i + 1, <<".">>)
    \/ \E i \in DOMAIN content : content[i] \in {"u2022", "-", "*"}
    \/ \E i \in DOMAIN content :
          /\ HasAt(content, i, <<"s", "t", "e", "p", " ">>)
          /\ i + 5 <= Len(content)
          /\ IsDigit(content[i + 5])
    \/ Contains(LowerText(content),
                <<"p", "r", "o", "c", "e", "d", "u", "r", "e", ":">>)
    \/ \E i, j \in DOMAIN content :
          /\ i < j
          /\ content[i] = ":"
          /\ content[j] = "\n"
          /\ \A k \in (i + 1)..(j - 1) : IsWhitespace(content[k])

\* _has_technical_data (lines 126-139): a digit, optional whitespace, a unit
HasTechnicalData(content) ==
    \E i, j \in DOMAIN content :
        /\ i < j
        /\ IsDigit(content[i])
        /\ \A k \in (i + 1)..(j - 1) : IsWhitespace(content[k])
        /\ \E unit \in TechnicalUnits : HasAt(content, j, unit)

SafetyBoost == 150

\* _calculate_safety_relevance (lines 141-154)
CalculateSafetyRelevance(content, query) ==
    IF \E indicator \in SafetyIndicators : Contains(LowerText(query), indicator)
    THEN SafetyBoost * Cardinality({ indicator \in SafetyIndicators :
                                      Contains(LowerText(content), indicator) })
    ELSE 0

QueryTermBoost == 100
MaintenanceBoost == 50
StructuredBoost == 80
TechnicalBoost == 60

\* a score that counts one query term more than the content holds
EnhancedScoreOneMore(similarity, exact_matches, maintenance_matches, structured, technical, safety_score) ==
    similarity + (exact_matches + 1) * QueryTermBoost
      + maintenance_matches * MaintenanceBoost
      + (IF structured THEN StructuredBoost ELSE 0)
      + (IF technical THEN TechnicalBoost ELSE 0)
      + safety_score

\* the score built up in lines 84-107
EnhancedScore(similarity, exact_matches, maintenance_matches, structured, technical, safety_score) ==
    similarity + exact_matches * QueryTermBoost
      + maintenance_matches * MaintenanceBoost
      + (IF structured THEN StructuredBoost ELSE 0)
      + (IF technical THEN TechnicalBoost ELSE 0)
      + safety_score

\* chunk['enhanced_score'] = score
ScoreChunk(chunk, query) ==
    [chunk_id |-> chunk.chunk_id, content |-> chunk.content,
     similarity |-> chunk.similarity,
     enhanced_score |->
        EnhancedScore(chunk.similarity,
                      ExactMatches(query, chunk.content),
                      MaintenanceMatches(chunk.content),
                      HasStructuredContent(chunk.content),
                      HasTechnicalData(chunk.content),
                      CalculateSafetyRelevance(chunk.content, query))]

\* sorted(chunks, key=enhanced_score, reverse=True): stable, descending
RECURSIVE InsertByEnhancedScore(_, _)
InsertByEnhancedScore(sorted, chunk) ==
    IF sorted = << >> THEN <<chunk>>
    ELSE IF Head(sorted).enhanced_score >= chunk.enhanced_score
         THEN <<Head(sorted)>> \o InsertByEnhancedScore(Tail(sorted), chunk)
         ELSE <<chunk>> \o sorted

RECURSIVE SortByEnhancedScore(_)
SortByEnhancedScore(chunks) ==
    IF chunks = << >> THEN << >>
    ELSE InsertByEnhancedScore(
             SortByEnhancedScore(SubSeq(chunks, 1, Len(chunks) - 1)),
             chunks[Len(chunks)])

\* a sort that puts chunks of equal score in the reverse of their input order
RankChunksByRelevanceTiesReversed(chunks, query) ==
    SortByEnhancedScore([i \in DOMAIN chunks |->
                            ScoreChunk(chunks[Len(chunks) + 1 - i], query)])

\* the scored chunks returned in the order they came in
RankChunksByRelevanceUnsorted(chunks, query) ==
    [i \in DOMAIN chunks |-> ScoreChunk(chunks[i], query)]

RankChunksByRelevance(chunks, query) ==
    SortByEnhancedScore([i \in DOMAIN chunks |-> ScoreChunk(chunks[i], query)])

(* rank_chunks_by_relevance as a function of its arguments                 *)

MaxRankChunks == 3

rCheckOil == <<"C", "h", "e", "c", "k", " ", "o", "i", "l", " ", "l", "e", "v", "e", "l">>
rDrainPlug == <<"O", "i", "l", " ", "d", "r", "a", "i", "n", " ", "p", "l", "u", "g", " ", "2", "0", " ", "N", "m">>
rRemoveSeat == <<"1", ".", " ", "R", "e", "m", "o", "v", "e", " ", "s", "e", "a", "t">>
rHotExhaust == <<"D", "a", "n", "g", "e", "r", " ", "h", "o", "t", " ", "e", "x", "h", "a", "u", "s", "t">>
rSeatCover == <<"S", "e", "a", "t", " ", "c", "o", "v", "e", "r">>
rCheckMaintenance == <<"C", "h", "e", "c", "k", " ", "m", "a", "i", "n", "t", "e", "n", "a", "n", "c", "e", " ", "c", "h", "e", "c", "k">>

RankChunk(chunk_id, content, similarity) ==
    [chunk_id |-> chunk_id, content |-> content, similarity |-> similarity]

RankChunks ==
    { RankChunk("r1", rCheckOil, 700), RankChunk("r2", rDrainPlug, 800),
      RankChunk("r3", rRemoveSeat, 750), RankChunk("r4", rHotExhaust, 600),
      RankChunk("r5", rSeatCover, 900),
      RankChunk("r6", rCheckMaintenance, 760) }

RankChunkLists == UNION {[1..n -> RankChunks] : n \in 0..MaxRankChunks}

RankQueries ==
    { << >>,
      <<"o", "i", "l", " ", "l", "e", "v", "e", "l">>,
      <<"H", "o", "t", " ", "o", "i", "l", " ", "d", "a", "n", "g", "e", "r">>,
      <<"t", "o", "r", "q", "u", "e", " ", " ", "s", "e", "a", "t">> }

InitRank ==
    /\ IdleRag
    /\ safety = IdleSafety
    /\ asm = IdleAsm
    /\ cons = IdleCons
    /\ batch = IdleBatch
    /\ \E chunks \in RankChunkLists, query \in RankQueries :
          rank = [query |-> query, chunks |-> chunks, ranked |-> << >>,
                  done |-> FALSE]
    /\ conf = IdleConf
    /\ enh = IdleEnh
    /\ fb = IdleFb
    /\ IdleLate

Rank ==
    /\ ~rank.done
    /\ rank' = [rank EXCEPT !.ranked = RankChunksByRelevance(rank.chunks, rank.query),
                            !.done = TRUE]
    /\ UNCHANGED <<ragVars, safety, asm, cons, batch, conf, enh, fb, lateVars>>

NextRank == Rank

SpecRank == InitRank /\ [][NextRank]_vars

\* the chunk as it was passed in
Unscored(chunk) == RankChunk(chunk.chunk_id, chunk.content, chunk.similarity)

\* C13: rank_chunks_by_relevance returns a permutation of its input (no
\* chunk added or dropped) in which every chunk's enhanced_score is >= the
\* enhanced_score of the chunk after it.
C13_RankedIsSortedPermutation ==
    rank.done =>
        /\ Len(rank.ranked) = Len(rank.chunks)
        /\ \E f \in [DOMAIN rank.ranked -> DOMAIN rank.chunks] :
              /\ \A i, j \in DOMAIN rank.ranked : i # j => f[i] # f[j]
              /\ \A i \in DOMAIN rank.ranked :
                    Unscored(rank.ranked[i]) = rank.chunks[f[i]]
        /\ \A i \in 1..(Len(rank.ranked) - 1) :
              rank.ranked[i].enhanced_score >= rank.ranked[i + 1].enhanced_score

C13_Witness ==
    /\ rank.done
    /\ Len(rank.ranked) = 3
    /\ rank.ranked[1].similarity < rank.ranked[2].similarity
    /\ rank.ranked[1].enhanced_score > rank.ranked[2].enhanced_score
    /\ Unscored(rank.ranked[1]) = rank.chunks[3]

\* the conditions under which none of the five boosts applies
NoBonusApplies(query, content) ==
    /\ \A term \in QueryTerms(query) : ~Contains(LowerText(content), term)
    /\ \A term \in MaintenanceKeywords : ~Contains(LowerText(content), term)
    /\ ~HasStructuredContent(content)
    /\ ~HasTechnicalData(content)
    /\ \/ \A indicator \in SafetyIndicators : ~Contains(LowerText(query), indicator)
       \/ \A indicator \in SafetyIndicators : ~Contains(LowerText(content), indicator)

\* C14: a chunk of similarity s to which no boost applies (no query term in
\* its content, no maintenance keyword, no structural marker, no technical
\* measurement, no safety relevance) gets enhanced_score = s exactly.
C14_NoBonusKeepsSimilarity ==
    rank.done =>
        \A i \in DOMAIN rank.ranked :
            NoBonusApplies(rank.query, rank.ranked[i].content)
               => rank.ranked[i].enhanced_score = rank.ranked[i].similarity

C14_Witness ==
    /\ rank.done
    /\ QueryTerms(rank.query) # {}
    /\ \E i, j \in DOMAIN rank.ranked :
          /\ NoBonusApplies(rank.query, rank.ranked[i].content)
          /\ rank.ranked[i].enhanced_score = rank.ranked[i].similarity
          /\ rank.ranked[j].enhanced_score > rank.ranked[j].similarity
          /\ i > j

\* C21 as stated: of two ranked chunks with the same enhanced_score the one
\* with the greater similarity comes first, for every input list.
C21_TiesBySimilarity ==
    rank.done =>
        \A i, j \in DOMAIN rank.ranked :
            (i < j /\ rank.ranked[i].enhanced_score = rank.ranked[j].enhanced_score)
               => rank.ranked[i].similarity >= rank.ranked[j].similarity

\* C21 amended: rank_chunks_by_relevance sorts by enhanced_score alone and
\* the sort is stable, so chunks of equal enhanced_score stay in the order
\* they had in the input list, whatever their similarities; they are in
\* descending order of similarity when the input list was.
C21_TiesKeepInputOrder ==
    rank.done =>
        /\ \E f \in [DOMAIN rank.ranked -> DOMAIN rank.chunks] :
              /\ \A i, j \in DOMAIN rank.ranked : i # j => f[i] # f[j]
              /\ \A i \in DOMAIN rank.ranked :
                    Unscored(rank.ranked[i]) = rank.chunks[f[i]]
              /\ \A i, j \in DOMAIN rank.ranked :
                    (i < j /\ rank.ranked[i].enhanced_score
                                = rank.ranked[j].enhanced_score)
                       => f[i] < f[j]
        /\ SortedBySimilarity(rank.chunks) =>
              \A i, j \in DOMAIN rank.ranked :
                  (i < j /\ rank.ranked[i].enhanced_score
                              = rank.ranked[j].enhanced_score)
                     => rank.ranked[i].similarity >= rank.ranked[j].similarity

C21_Witness ==
    /\ rank.done
    /\ Len(rank.ranked) = 2
    /\ rank.ranked[1].enhanced_score = rank.ranked[2].enhanced_score
    /\ rank.ranked[1].similarity < rank.ranked[2].similarity
    /\ Unscored(rank.ranked[1]) = rank.chunks[1]

\* the part of a chunk's enhanced_score that the maintenance-keyword loop
\* added: the score less the similarity and the four other boosts
MaintenanceBonus(scored, query) ==
    scored.enhanced_score
      - EnhancedScore(scored.similarity,
                      ExactMatches(query, scored.content), 0,
                      HasStructuredContent(scored.content),
                      HasTechnicalData(scored.content),
                      CalculateSafetyRelevance(scored.content, query))

\* the ten keywords service, check, inspect, replace, adjust, clean,
\* lubricate, tighten, torque, interval
ListedMaintenanceKeywords ==
    MaintenanceKeywords
       \ { <<"m", "a", "i", "n", "t", "e", "n", "a", "n", "c", "e">> }

KeywordsFound(keywords, content) ==
    { term \in keywords : Contains(LowerText(content), term) }

\* C22 as stated: the maintenance bonus is 0.05 for each of the ten listed
\* keywords found in the content, and no other word contributes to it.
C22_BonusFromTenKeywords ==
    rank.done =>
        \A i \in DOMAIN rank.ranked :
            MaintenanceBonus(rank.ranked[i], rank.query)
               = MaintenanceBoost
                   * Cardinality(KeywordsFound(ListedMaintenanceKeywords,
                                               rank.ranked[i].content))

\* C22 amended: the maintenance bonus is 0.05 for each of the eleven
\* keywords (the ten listed ones and "maintenance") that occurs as a
\* substring of the lower-cased content, once per keyword however often it
\* occurs.
C22_BonusFromElevenKeywords ==
    rank.done =>
        \A i \in DOMAIN rank.ranked :
            MaintenanceBonus(rank.ranked[i], rank.query)
               = MaintenanceBoost
                   * Cardinality(KeywordsFound(MaintenanceKeywords,
                                               rank.ranked[i].content))

C22_Witness ==
    /\ rank.done
    /\ \E i \in DOMAIN rank.ranked :
          /\ rank.ranked[i].content = rCheckMaintenance
          /\ MaintenanceBonus(rank.ranked[i], rank.query) = 2 * MaintenanceBoost
    /\ \E i \in DOMAIN rank.ranked :
          MaintenanceBonus(rank.ranked[i], rank.query) = 0

----------------------------------------------------------------------------
(* The confidence of a result.  HusqvarnaRAGSystem._calculate_confidence is *)
(* called by the unit tests (test_rag_system.py 144-155) on chunks that     *)
(* carry a similarity_score.  A confidence is kept as the exact fraction    *)
(* num / den of similarities in units of 1/1000.                            *)

\* the greatest similarity_score taken for the confidence
CalculateConfidenceMax(chunks) ==
    IF chunks = << >> THEN [num |-> 0, den |-> 1]
    ELSE [num |-> CHOOSE s \in {chunks[i].similarity_score : i \in DOMAIN chunks} :
                     \A i \in DOMAIN chunks : chunks[i].similarity_score <= s,
          den |-> 1]

\* the arithmetic mean of the chunks' similarities, 0.0 for no chunks
CalculateConfidence(chunks) ==
    IF chunks = << >> THEN [num |-> 0, den |-> 1]
    ELSE [num |-> SumSeq([i \in DOMAIN chunks |-> chunks[i].similarity_score]),
          den |-> Len(chunks)]

MaxConfChunks == 3

ConfSimilarities == {700, 800, 850, 900}

ConfChunks == { [similarity_score |-> s] : s \in ConfSimilarities }

ConfChunkLists == UNION {[1..n -> ConfChunks] : n \in 0..MaxConfChunks}

InitConf ==
    /\ IdleRag
    /\ safety = IdleSafety
    /\ asm = IdleAsm
    /\ cons = IdleCons
    /\ batch = IdleBatch
    /\ rank = IdleRank
    /\ \E chunks \in ConfChunkLists :
          conf = [chunks |-> chunks, confidence |-> [num |-> 0, den |-> 1],
                  done |-> FALSE]
    /\ enh = IdleEnh
    /\ fb = IdleFb
    /\ IdleLate

Confidence ==
    /\ ~conf.done
    /\ conf' = [conf EXCEPT !.confidence = CalculateConfidence(conf.chunks),
                            !.done = TRUE]
    /\ UNCHANGED <<ragVars, safety, asm, cons, batch, rank, enh, fb, lateVars>>

NextConf == Confidence

SpecConf == InitConf /\ [][NextConf]_vars

\* confidence = value / 1000
ConfidenceIs(value) == conf.confidence.num = value * conf.confidence.den

ConfSimilarityList == [i \in DOMAIN conf.chunks |-> conf.chunks[i].similarity_score]

\* C15: the confidence is the arithmetic mean of the candidates'
\* similarities (n times the confidence is their sum); [0.9, 0.8, 0.7] gives
\* 0.8, [0.9, 0.8] gives 0.85, and no candidates give 0.0.
C15_ConfidenceIsMean ==
    conf.done =>
        /\ conf.confidence.den > 0
        /\ conf.chunks = << >> => ConfidenceIs(0)
        /\ conf.chunks # << >> =>
              conf.confidence.num * Len(conf.chunks)
                 = SumSeq(ConfSimilarityList) * conf.confidence.den
        /\ ConfSimilarityList = <<900, 800, 700>> => ConfidenceIs(800)
        /\ ConfSimilarityList = <<900, 800>> => ConfidenceIs(850)

C15_Witness ==
    /\ conf.done
    /\ ConfSimilarityList = <<900, 800, 700>>
    /\ ConfidenceIs(800)

----------------------------------------------------------------------------
(* SafetyEnhancer.enhance_response (safety_enhancement.py 66-145).  Text is *)
(* a sequence of one-character strings; U+1F6A8 (police light) is written  *)
(* "u1F6A8", U+26A0 U+FE0F (warning sign) "u26A0", "uFE0F" and U+2022       *)
(* (bullet) "u2022".                                                        *)

UpperChar(c) ==
    IF \E i \in DOMAIN LowerCase : LowerCase[i] = c
    THEN UpperCase[CHOOSE i \in DOMAIN LowerCase : LowerCase[i] = c]
    ELSE c

\* str.upper()
UpperText(text) == [i \in DOMAIN text |-> UpperChar(text[i])]

\* re.split(r'[.!?]', text)
RECURSIVE SplitSentences(_, _)
SplitSentences(text, current) ==
    IF text = << >> THEN <<current>>
    ELSE IF Head(text) \in {".", "!", "?"}
         THEN <<current>> \o SplitSentences(Tail(text), << >>)
         ELSE SplitSentences(Tail(text), Append(current, Head(text)))

\* str.strip() on one-character sequences
RECURSIVE StripChars(_)
StripChars(text) ==
    IF text = << >> THEN text
    ELSE IF IsWhitespace(Head(text)) THEN StripChars(Tail(text))
    ELSE IF IsWhitespace(text[Len(text)])
         THEN StripChars(SubSeq(text, 1, Len(text) - 1))
         ELSE text

\* the first sentence of content that holds keyword (lines 111-115)
FirstSentenceWith(content, keyword) ==
    LET sentences == SplitSentences(content, << >>)
        first == CHOOSE i \in DOMAIN sentences :
                    /\ Contains(LowerText(sentences[i]), keyword)
                    /\ \A j \in 1..(i - 1) :
                          ~Contains(LowerText(sentences[j]), keyword)
    IN  StripChars(sentences[first])

\* set(safety_info) of _extract_safety_info (lines 100-117)
ExtractSafetyInfo(chunks) ==
    { FirstSentenceWith(chunks[p[1]].content, SafetyKeywords[p[2]]) :
        p \in { q \in (DOMAIN chunks) \X (DOMAIN SafetyKeywords) :
                  Contains(LowerText(chunks[q[1]].content), SafetyKeywords[q[2]]) } }

\* list(set(safety_info)): the elements of the set in any order
ListsOfSet(S) ==
    { f \in [1..Cardinality(S) -> S] :
        \A i, j \in 1..Cardinality(S) : i # j => f[i] # f[j] }

CriticalPrefix ==
    <<"u1F6A8", " ", "C", "R", "I", "T", "I", "C", "A", "L", " ", "S", "A",
      "F", "E", "T", "Y", " ", "W", "A", "R", "N", "I", "N", "G", " ",
      "u1F6A8">>

StandardPrefix ==
    <<"u26A0", "uFE0F", " ", " ", "S", "A", "F", "E", "T", "Y", " ", "W",
      "A", "R", "N", "I", "N", "G", " ", "u26A0", "uFE0F">>

WarningClosing ==
    <<"\n", "P", "l", "e", "a", "s", "e", " ", "r", "e", "a", "d", " ",
      "a", "n", "d", " ", "f", "o", "l", "l", "o", "w", " ", "a", "l", "l",
      " ", "s", "a", "f", "e", "t", "y", " ", "i", "n", "s", "t", "r", "u",
      "c", "t", "i", "o", "n", "s", " ", "c", "a", "r", "e", "f", "u", "l",
      "l", "y", ".">>

\* the CRITICAL label used from level 2 on
WarningPrefixFromLevel2(safety_level) ==
    IF safety_level >= 2 THEN CriticalPrefix ELSE StandardPrefix

\* lines 121-124
WarningPrefix(safety_level) ==
    IF safety_level >= 3 THEN CriticalPrefix ELSE StandardPrefix

RECURSIVE WarningBullets(_)
WarningBullets(infos) ==
    IF infos = << >> THEN << >>
    ELSE <<"u2022", " ">> \o Head(infos) \o <<"\n">> \o WarningBullets(Tail(infos))

\* _create_safety_warning (lines 119-134)
CreateSafetyWarning(safety_info, safety_level) ==
    WarningPrefix(safety_level) \o <<"\n", "\n">>
      \o WarningBullets(SubSeq(safety_info, 1, Min(2, Len(safety_info))))
      \o WarningClosing

\* "".join(pieces[lo..hi])
RECURSIVE JoinPieces(_, _, _)
JoinPieces(pieces, lo, hi) ==
    IF lo > hi THEN << >>
    ELSE IF lo = hi THEN pieces[lo]
    ELSE LET mid == (lo + hi) \div 2
         IN  JoinPieces(pieces, lo, mid) \o JoinPieces(pieces, mid + 1, hi)

\* pattern.sub(f"**{keyword.upper()}**", text) with re.IGNORECASE.  No
\* keyword overlaps a shifted copy of itself, so the non-overlapping matches
\* that re.sub replaces are all the occurrences of the keyword.
EmphasizeKeyword(text, keyword) ==
    LET lower == LowerText(text)
        matches == { i \in 1..(Len(text) - Len(keyword) + 1) :
                       /\ lower[i] = keyword[1]
                       /\ SubSeq(lower, i, i + Len(keyword) - 1) = keyword }
        pieces == [i \in DOMAIN text |->
                     IF i \in matches
                     THEN <<"*", "*">> \o UpperText(keyword) \o <<"*", "*">>
                     ELSE IF \E j \in matches : j < i /\ i - j < Len(keyword)
                          THEN << >>
                          ELSE <<text[i]>>]
    IN  IF matches = {} THEN text ELSE JoinPieces(pieces, 1, Len(text))

RECURSIVE EmphasizeKeywords(_, _)
EmphasizeKeywords(text, k) ==
    IF k > Len(SafetyKeywords) THEN text
    ELSE EmphasizeKeywords(EmphasizeKeyword(text, SafetyKeywords[k]), k + 1)

\* _emphasize_safety_keywords (lines 136-145)
EmphasizeSafetyKeywords(text) == EmphasizeKeywords(text, 1)

\* enhance_response (lines 66-98); safety_info is the list that
\* _extract_safety_info returned
\* the keywords emphasised even when the chunks give no safety information
EnhanceResponseAlwaysEmphasized(response, safety_level, safety_info) ==
    IF safety_level = 0 THEN response
    ELSE IF safety_level >= 2 /\ safety_info # << >>
         THEN EmphasizeSafetyKeywords(
                  CreateSafetyWarning(safety_info, safety_level)
                    \o <<"\n", "\n">> \o response)
         ELSE EmphasizeSafetyKeywords(response)

EnhanceResponse(response, safety_level, safety_info) ==
    IF safety_level = 0 THEN response
    ELSE IF safety_info = << >> THEN response
    ELSE IF safety_level >= 2
         THEN EmphasizeSafetyKeywords(
                  CreateSafetyWarning(safety_info, safety_level)
                    \o <<"\n", "\n">> \o response)
         ELSE EmphasizeSafetyKeywords(response)

(* enhance_response as a function of its arguments                         *)

MaxEnhChunks == 2

eCheckOil == <<"C", "h", "e", "c", "k", " ", "o", "i", "l", " ", "l", "e", "v", "e", "l">>
eHotOil ==
    <<"H", "o", "t", " ", "o", "i", "l", " ", "c", "a", "n", " ", "b", "u",
      "r", "n", "!", " ", "W", "e", "a", "r", " ", "g", "l", "o", "v", "e",
      "s">>
eScalding ==
    <<" ", "R", "i", "s", "k", " ", "o", "f", " ", "s", "c", "a", "l", "d",
      "i", "n", "g", ".", " ", "T", "o", "x", "i", "c">>

EnhContents == {eCheckOil, eHotOil, eScalding}

EnhChunkLists ==
    UNION {[1..n -> {[content |-> c] : c \in EnhContents}] : n \in 0..MaxEnhChunks}

EnhResponses ==
    { << >>,
      <<"C", "h", "e", "c", "k", " ", "o", "i", "l", ".">>,
      <<"D", "a", "n", "g", "e", "r", ":", " ", "h", "o", "t", " ", "o", "i", "l">> }

SafetyLevels == 0..3

InitEnhance ==
    /\ IdleRag
    /\ safety = IdleSafety
    /\ asm = IdleAsm
    /\ cons = IdleCons
    /\ batch = IdleBatch
    /\ rank = IdleRank
    /\ conf = IdleConf
    /\ \E response \in EnhResponses, safety_level \in SafetyLevels,
          chunks \in EnhChunkLists :
          enh = [response |-> response, safety_level |-> safety_level,
                 chunks |-> chunks, safety_info |-> << >>,
                 enhanced |-> << >>, done |-> FALSE]
    /\ fb = IdleFb
    /\ IdleLate

Enhance ==
    /\ ~enh.done
    /\ \E safety_info \in (IF enh.safety_level = 0 THEN {<< >>}
                           ELSE ListsOfSet(ExtractSafetyInfo(enh.chunks))) :
          enh' = [enh EXCEPT
                    !.safety_info = safety_info,
                    !.enhanced = EnhanceResponse(enh.response, enh.safety_level,
                                                 safety_info),
                    !.done = TRUE]
    /\ UNCHANGED <<ragVars, safety, asm, cons, batch, rank, conf, fb, lateVars>>

NextEnhance == Enhance

SpecEnhance == InitEnhance /\ [][NextEnhance]_vars

----------------------------------------------------------------------------
(* Claims about enhance_response, under SpecEnhance                        *)

StartsWith(text, prefix) ==
    /\ Len(prefix) <= Len(text)
    /\ SubSeq(text, 1, Len(prefix)) = prefix

EndsWith(text, suffix) ==
    /\ Len(suffix) <= Len(text)
    /\ SubSeq(text, Len(text) - Len(suffix) + 1, Len(text)) = suffix

\* the two labels as they read once their own keywords are emphasised
CriticalLabelEmphasized ==
    <<"u1F6A8", " ", "*", "*", "C", "R", "I", "T", "I", "C", "A", "L", "*",
      "*", " ", "*", "*", "S", "A", "F", "E", "T", "Y", "*", "*", " ", "*",
      "*", "W", "A", "R", "N", "I", "N", "G", "*", "*", " ", "u1F6A8">>

StandardLabelEmphasized ==
    <<"u26A0", "uFE0F", " ", " ", "*", "*", "S", "A", "F", "E", "T", "Y",
      "*", "*", " ", "*", "*", "W", "A", "R", "N", "I", "N", "G", "*", "*",
      " ", "u26A0", "uFE0F">>

HasCriticalLabel(text) ==
    StartsWith(text, CriticalPrefix) \/ StartsWith(text, CriticalLabelEmphasized)

HasStandardLabel(text) ==
    StartsWith(text, StandardPrefix) \/ StartsWith(text, StandardLabelEmphasized)

HasSafetyKeyword(text) ==
    \E k \in DOMAIN SafetyKeywords : Contains(LowerText(text), SafetyKeywords[k])

SomeCandidateHasSafetyKeyword ==
    \E i \in DOMAIN enh.chunks : HasSafetyKeyword(enh.chunks[i].content)

\* C16 as stated: with a safety level >= 2 and a candidate that holds a
\* safety keyword, the returned text starts with the warning banner and the
\* banner is followed by the original response; the label is the CRITICAL
\* one exactly at level 3 and the standard one at level 2; at level 1 there
\* is no banner.
C16_BannerThenOriginalResponse ==
    (enh.done /\ SomeCandidateHasSafetyKeyword) =>
        /\ enh.safety_level = 3 =>
              /\ HasCriticalLabel(enh.enhanced)
              /\ EndsWith(enh.enhanced, <<"\n", "\n">> \o enh.response)
        /\ enh.safety_level = 2 =>
              /\ HasStandardLabel(enh.enhanced)
              /\ ~HasCriticalLabel(enh.enhanced)
              /\ EndsWith(enh.enhanced, <<"\n", "\n">> \o enh.response)
        /\ enh.safety_level = 1 =>
              /\ ~HasCriticalLabel(enh.enhanced)
              /\ ~HasStandardLabel(enh.enhanced)

\* C16 amended: with a safety level >= 2 and a candidate that holds a safety
\* keyword, the returned text starts with the warning banner (its label with
\* the keywords emphasised: CRITICAL exactly at level 3, standard at level
\* 2), and the banner is followed by the response in which every safety
\* keyword is replaced by its bold upper-case form: the original response
\* only if it holds no safety keyword.  At level 1 there is no banner, only
\* the emphasis.
C16_BannerThenEmphasizedResponse ==
    (enh.done /\ SomeCandidateHasSafetyKeyword) =>
        /\ enh.safety_level = 3 =>
              /\ StartsWith(enh.enhanced, CriticalLabelEmphasized)
              /\ EndsWith(enh.enhanced,
                          <<"\n", "\n">> \o EmphasizeSafetyKeywords(enh.response))
        /\ enh.safety_level = 2 =>
              /\ StartsWith(enh.enhanced, StandardLabelEmphasized)
              /\ ~HasCriticalLabel(enh.enhanced)
              /\ EndsWith(enh.enhanced,
                          <<"\n", "\n">> \o EmphasizeSafetyKeywords(enh.response))
        /\ (enh.safety_level >= 2 /\ ~HasSafetyKeyword(enh.response)) =>
              EndsWith(enh.enhanced, <<"\n", "\n">> \o enh.response)
        /\ enh.safety_level = 1 =>
              /\ ~HasCriticalLabel(enh.enhanced)
              /\ ~HasStandardLabel(enh.enhanced)
              /\ enh.enhanced = EmphasizeSafetyKeywords(enh.response)

C16_Witness ==
    /\ enh.done
    /\ enh.safety_level = 3
    /\ SomeCandidateHasSafetyKeyword
    /\ HasSafetyKeyword(enh.response)
    /\ Len(enh.safety_info) = 3
    /\ StartsWith(enh.enhanced, CriticalLabelEmphasized)
    /\ ~EndsWith(enh.enhanced, enh.response)

SomeSentenceHasSafetyKeyword ==
    \E i \in DOMAIN enh.chunks :
        LET sentences == SplitSentences(enh.chunks[i].content, << >>)
        IN  \E k \in DOMAIN sentences : HasSafetyKeyword(sentences[k])

\* C24: enhance_response returns the response text unchanged, with no
\* banner and no keyword emphasised, whenever the safety level is 0 and
\* whenever the level is > 0 but no sentence of any candidate contains a
\* safety keyword.
C24_UnchangedWithoutSafetyInfo ==
    enh.done =>
        /\ enh.safety_level = 0 => enh.enhanced = enh.response
        /\ (enh.safety_level > 0 /\ ~SomeSentenceHasSafetyKeyword)
              => enh.enhanced = enh.response

\* at level 3, with a response that holds a safety keyword and one chunk
\* that holds none, the response comes back as it was
C24_Witness ==
    /\ enh.done
    /\ enh.safety_level = 3
    /\ Len(enh.chunks) = 1
    /\ ~SomeSentenceHasSafetyKeyword
    /\ HasSafetyKeyword(enh.response)
    /\ enh.enhanced = enh.response

----------------------------------------------------------------------------
(* Claims about get_system_stats, under Spec                               *)

StatsQueryFailed == stats.store = "fail" \/ stats.row.total_chunks = 0

\* C20: get_system_stats never raises; when the statistics query fails (a
\* table with zero chunks included) the dictionary it returns has
\* system_status = "error" and an error field with the failure message.
C20_StatsFailureIsReported ==
    (stats.called /\ StatsQueryFailed) =>
        /\ "system_status" \in DOMAIN stats.returned
        /\ stats.returned.system_status = "error"
        /\ "error" \in DOMAIN stats.returned
        /\ stats.returned.error \in {"StoreUnavailable", "division by zero"}

----------------------------------------------------------------------------
(* Claims about the stages and the sources of query(), under Spec          *)

\* the steps of the last query(), generate_response unfolded into the
\* context assembly (lines 261-283) and the generate_content call (318)
PipelineStages ==
    IF call.stages # << >> /\ call.stages[Len(call.stages)] = "generation"
    THEN SubSeq(call.stages, 1, Len(call.stages) - 1) \o <<"assemble", "generate">>
    ELSE call.stages

\* a query answered from retrieved chunks
Answered == queries > 0 /\ result.success /\ result.chunks_found > 0

\* C17: in every answered query the stages run in the order embed, search,
\* dedupe, rank, assemble, generate, each exactly once, the ranking between
\* de-duplication and context assembly.
C17_StagesInOrder ==
    Answered =>
        PipelineStages = <<"embed", "search", "dedupe", "rank", "assemble", "generate">>

\* the chunks search_similar_chunks returned to the last query()
SurvivingCandidates ==
    SearchSimilarChunks(StoreAnswer(call.user_query, call.vector),
                        call.top_k, call.similarity_threshold)

\* C18: in every successful result, sources has one entry per surviving
\* candidate, in the candidates' order, each entry holding exactly that
\* candidate's source, page, similarity and safety level; chunks_found is
\* the length of sources.
C18_SourcesMirrorCandidates ==
    (queries > 0 /\ result.success) =>
        /\ Len(result.sources) = Len(SurvivingCandidates)
        /\ result.chunks_found = Len(result.sources)
        /\ \A k \in DOMAIN result.sources :
              /\ DOMAIN result.sources[k]
                    = {"source", "page", "similarity", "safety_level"}
              /\ result.sources[k].source = SurvivingCandidates[k].source
              /\ result.sources[k].page = SurvivingCandidates[k].page_number
              /\ result.sources[k].similarity = SurvivingCandidates[k].similarity
              /\ result.sources[k].safety_level = SurvivingCandidates[k].safety_level

C18_Witness ==
    /\ queries > 0
    /\ result.success
    /\ result.chunks_found = 3
    /\ Len(RowsSeen) > 3
    /\ result.sources[1].similarity > result.sources[3].similarity
    /\ result.sources[1].page # result.sources[2].page
    /\ result.sources[1].safety_level = 3
    /\ result.sources[3].safety_level = 1

----------------------------------------------------------------------------
(* generate_response_fallback as a function of its chunk list: every list  *)
(* of up to MaxFbChunks chunks, in any order, over five contents that are  *)
(* no duplicates of each other and one that repeats another.               *)

MaxFbChunks == 5

FbChunk(chunk_id, content, page_number, safety_level, similarity) ==
    [chunk_id |-> chunk_id, content |-> content, source |-> "repair",
     page_number |-> page_number, safety_level |-> safety_level,
     similarity |-> similarity, distance |-> 1000 - similarity]

FbChunks ==
    { FbChunk("c6", cChain, 101, 1, 900),
      FbChunk("c7", cTire, 102, 2, 850),
      FbChunk("c8", cSpark, 103, 1, 800),
      FbChunk("c1", cOil, 12, 1, 750),
      FbChunk("c2", cOilUpper, 13, 3, 740),
      FbChunk("c4", cBrake, 45, 3, 700) }

FbChunkLists == UNION {[1..n -> FbChunks] : n \in 0..MaxFbChunks}

InitFallback ==
    /\ IdleRag
    /\ safety = IdleSafety
    /\ asm = IdleAsm
    /\ cons = IdleCons
    /\ batch = IdleBatch
    /\ rank = IdleRank
    /\ conf = IdleConf
    /\ enh = IdleEnh
    /\ \E chunks \in FbChunkLists :
          fb = [chunks |-> chunks,
                response |-> Response("none", FALSE, << >>, "none", ""),
                done |-> FALSE]
    /\ IdleLate

Fallback ==
    /\ ~fb.done
    /\ fb' = [fb EXCEPT !.response = GenerateResponseFallback("query", fb.chunks),
                        !.done = TRUE]
    /\ UNCHANGED <<ragVars, safety, asm, cons, batch, rank, conf, enh, lateVars>>

NextFallback == Fallback

SpecFallback == InitFallback /\ [][NextFallback]_vars

\* the chunks passed in that the answer quotes (pages identify chunks)
ListedCandidates ==
    { c \in {fb.chunks[i] : i \in DOMAIN fb.chunks} :
        \E k \in DOMAIN fb.response.listed :
            /\ fb.response.listed[k].source = c.source
            /\ fb.response.listed[k].page_number = c.page_number }

\* the chunks left after consolidation, quoted or not
ConsolidatedCandidates ==
    LET consolidated_chunks == ConsolidateSimilarChunks(fb.chunks)
    IN  {consolidated_chunks[k] : k \in DOMAIN consolidated_chunks}

\* C19 as stated: the fallback answer lists at most 3 consolidated
\* candidates and is prefixed with the safety banner exactly when one of
\* the candidates listed in the answer has safety_level >= 3.
C19_BannerIffListedHighSafety ==
    fb.done =>
        /\ Len(fb.response.listed) <= 3
        /\ fb.response.warning <=> \E c \in ListedCandidates : c.safety_level >= 3

\* C19 amended: the fallback answer lists at most 3 consolidated candidates
\* (the first three of the consolidated list) and is prefixed with the
\* safety banner exactly when one of the consolidated candidates, listed in
\* the answer or not, has safety_level >= 3.
C19_BannerIffConsolidatedHighSafety ==
    fb.done =>
        /\ Len(fb.response.listed) <= 3
        /\ Len(fb.response.listed) = Min(3, Cardinality(ConsolidatedCandidates))
        /\ ListedCandidates \subseteq ConsolidatedCandidates
        /\ \A c \in ListedCandidates, d \in ConsolidatedCandidates \ ListedCandidates :
              c.similarity >= d.similarity
        /\ fb.response.warning
              <=> \E c \in ConsolidatedCandidates : c.safety_level >= 3

C19_Witness ==
    /\ fb.done
    /\ Len(fb.response.listed) = 3
    /\ fb.response.warning
    /\ \A c \in ListedCandidates : c.safety_level < 3
    /\ \E c \in ConsolidatedCandidates \ ListedCandidates : c.safety_level >= 3

----------------------------------------------------------------------------
(* The word-overlap test as the two loops apply it: the same list of      *)
(* chunks is passed through the filter loop of search_similar_chunks and   *)
(* through _consolidate_similar_chunks.  The contents share 13 of 20, 7 of *)
(* 10 and 15 of 20 words with the first one, so the ratios 0.65, 0.70 and  *)
(* 0.75 occur.                                                             *)

MaxDupChunks == 3

dTwenty ==
    <<"w01", " ", "w02", " ", "w03", " ", "w04", " ", "w05", " ", "w06",
       " ", "w07", " ", "w08", " ", "w09", " ", "w10", " ", "w11", " ",
       "w12", " ", "w13", " ", "w14", " ", "w15", " ", "w16", " ", "w17",
       " ", "w18", " ", "w19", " ", "w20">>

dShare13 ==
    <<"w01", " ", "w02", " ", "w03", " ", "w04", " ", "w05", " ", "w06",
       " ", "w07", " ", "w08", " ", "w09", " ", "w10", " ", "w11", " ",
       "w12", " ", "w13", " ", "x1", " ", "x2", " ", "x3", " ", "x4", " ",
       "x5", " ", "x6", " ", "x7">>

dTenShare7 ==
    <<"w01", " ", "w02", " ", "w03", " ", "w04", " ", "w05", " ", "w06",
       " ", "w07", " ", "y1", " ", "y2", " ", "y3">>

dShare15 ==
    <<"w01", " ", "w02", " ", "w03", " ", "w04", " ", "w05", " ", "w06",
       " ", "w07", " ", "w08", " ", "w09", " ", "w10", " ", "w11", " ",
       "w12", " ", "w13", " ", "w14", " ", "w15", " ", "x1", " ", "x2",
       " ", "x3", " ", "x4", " ", "x5">>

DupContents == {dTwenty, dShare13, dTenShare7, dShare15, cBlank}

DupContentLists == UNION {[1..n -> DupContents] : n \in 0..MaxDupChunks}

\* the rows of one answer of the store: chunk_id is the position in the
\* answer, similarities descend from 0.89 in steps of 0.01
DupRows(contents) ==
    [i \in DOMAIN contents |->
        Row(i, contents[i], "owners", 10 + i, 1, 9000 - 100 * i)]

\* the chunks made of the rows, their contents not yet stripped
DupChunks(contents) ==
    [i \in DOMAIN contents |->
        ChunkOfRow(DupRows(contents)[i], contents[i])]

DupTopK == 5
DupThreshold == 7000

InitDup ==
    /\ IdleRag
    /\ safety = IdleSafety
    /\ asm = IdleAsm
    /\ cons = IdleCons
    /\ batch = IdleBatch
    /\ rank = IdleRank
    /\ conf = IdleConf
    /\ enh = IdleEnh
    /\ fb = IdleFb
    /\ \E contents \in DupContentLists :
          dup = [chunks |-> DupChunks(contents), searched |-> << >>,
                 consolidated |-> << >>, done |-> FALSE]
    /\ search = IdleSearch
    /\ qual = IdleQual
    /\ vs = IdleVs

Dedup ==
    /\ ~dup.done
    /\ dup' = [dup EXCEPT
                  !.searched =
                      SearchSimilarChunks(
                          DupRows([i \in DOMAIN dup.chunks |-> dup.chunks[i].content]),
                          DupTopK, DupThreshold),
                  !.consolidated = ConsolidateSimilarChunks(dup.chunks),
                  !.done = TRUE]
    /\ UNCHANGED <<ragVars, safety, asm, cons, batch, rank, conf, enh, fb,
                   search, qual, vs>>

NextDup == Dedup

SpecDup == InitDup /\ [][NextDup]_vars

\* the chunk at position k of the input is in the output
AcceptedIn(output, k) == \E i \in DOMAIN output : output[i].chunk_id = k

\* both word sets non-empty and |intersection| / min(|a|, |b|) > percent/100
RatioAbove(candidate_words, accepted_words, percent) ==
    /\ candidate_words # {}
    /\ accepted_words # {}
    /\ Cardinality(candidate_words \cap accepted_words) * 100
          > percent * Min(Cardinality(candidate_words),
                          Cardinality(accepted_words))

RatioEquals(candidate_words, accepted_words, percent) ==
    /\ candidate_words # {}
    /\ accepted_words # {}
    /\ Cardinality(candidate_words \cap accepted_words) * 100
          = percent * Min(Cardinality(candidate_words),
                          Cardinality(accepted_words))

RejectedExactlyWhenAbove(output, percent) ==
    \A k \in DOMAIN dup.chunks :
        ~AcceptedIn(output, k) <=>
            \E j \in 1..(k - 1) :
                /\ AcceptedIn(output, j)
                /\ RatioAbove(Words(dup.chunks[k].content),
                              Words(dup.chunks[j].content), percent)

\* C23: a candidate is rejected as a duplicate exactly when its word
\* overlap with some previously accepted entry, both word sets non-empty,
\* is strictly above the threshold: 0.65 in the search loop, 0.70 in
\* consolidation.  A ratio equal to the threshold does not reject, and a
\* candidate with no words is always kept.
C23_RejectedExactlyWhenAboveThreshold ==
    dup.done =>
        /\ RejectedExactlyWhenAbove(dup.searched, 65)
        /\ RejectedExactlyWhenAbove(dup.consolidated, 70)
        /\ \A k \in DOMAIN dup.chunks :
              Words(dup.chunks[k].content) = {} =>
                  AcceptedIn(dup.searched, k) /\ AcceptedIn(dup.consolidated, k)

\* the list twenty, 13-of-20, 7-of-10: the second is kept by both loops at
\* a ratio of exactly 0.65, the third is rejected by the search loop and
\* kept by consolidation at a ratio of exactly 0.70
C23_Witness ==
    /\ dup.done
    /\ Len(dup.chunks) = 3
    /\ dup.chunks[1].content = dTwenty
    /\ RatioEquals(Words(dup.chunks[2].content), Words(dTwenty), 65)
    /\ RatioEquals(Words(dup.chunks[3].content), Words(dTwenty), 70)
    /\ AcceptedIn(dup.searched, 2)
    /\ ~AcceptedIn(dup.searched, 3)
    /\ AcceptedIn(dup.consolidated, 3)

----------------------------------------------------------------------------
(* Claims about the notes of the fallback answer, under SpecFallback       *)

\* len(consolidated_chunks)
ConsolidatedCount == Len(ConsolidateSimilarChunks(fb.chunks))

DuplicatesRemoved == ConsolidatedCount < Len(fb.chunks)

\* C25 as stated: whenever consolidation removed a duplicate the answer
\* holds the note about consolidated sections, however many candidates are
\* left.
C25_NoteWheneverRemoved ==
    (fb.done /\ DuplicatesRemoved) => fb.response.note = "consolidated"

\* C25 amended: the answer holds at most one of the two notes.  With more
\* than 3 consolidated candidates it is the note about additional sections,
\* whether duplicates were removed or not; the note about consolidated
\* sections appears exactly when duplicates were removed and at most 3
\* candidates are left.
C25_NoteWhenRemovedAndAtMostThree ==
    (fb.done /\ fb.chunks # << >>) =>
        /\ fb.response.note = "additional" <=> ConsolidatedCount > 3
        /\ fb.response.note = "consolidated" <=>
              (DuplicatesRemoved /\ ConsolidatedCount <= 3)

C25_Witness ==
    /\ fb.done
    /\ DuplicatesRemoved
    /\ ConsolidatedCount = 4
    /\ fb.response.note = "additional"

----------------------------------------------------------------------------
(* ResponseEnhancer.validate_response_quality (response_enhancement.py     *)
(* 156-229).  A score is an integer in units of 1/60, so that n/1 .. n/6   *)
(* and the tenths are exact; the overall score, a sum of products with     *)
(* weights in tenths, is in units of 1/600.                                *)

ScoreUnit == 60

\* weights (lines 209-215), in tenths
CompletenessWeight == 3
SafetyWeight == 3
TechnicalWeight == 2
StructureWeight == 1
AttributionWeight == 1

\* technical_accuracy without technical data (0.5) and structure_score
\* without structure (0.7)
TechnicalWithout == 30
StructureWithout == 42

\* sum(1 for indicator in self.safety_indicators if indicator in response_lower)
SafetyMentions(response) ==
    Cardinality({ indicator \in SafetyIndicators :
                    Contains(LowerText(response), indicator) })

\* [c for c in chunks if c['safety_level'] >= 3]
HighSafetyChunks(chunks) == SelectSeq(chunks, LAMBDA c : c.safety_level >= 3)

\* lines 190-194
SafetyScore(safety_mentions, high_safety_chunks) ==
    IF high_safety_chunks # << >> /\ safety_mentions = 0
    THEN 0
    ELSE LET divisor == IF Len(high_safety_chunks) > 1
                        THEN Len(high_safety_chunks) ELSE 1
         IN  Min((safety_mentions * ScoreUnit) \div divisor, ScoreUnit)

\* len(re.findall(r'page \d+|source:|manual', response_lower)): no match of
\* one alternative can begin inside a match of another, so the matches are
\* counted by the positions they start at
SourceMentions(response) ==
    Cardinality({ i \in DOMAIN response :
        \/ /\ HasAt(response, i, <<"p", "a", "g", "e", " ">>)
           /\ i + 5 <= Len(response)
           /\ IsDigit(response[i + 5])
        \/ HasAt(response, i, <<"s", "o", "u", "r", "c", "e", ":">>)
        \/ HasAt(response, i, <<"m", "a", "n", "u", "a", "l">>) })

\* an attribution score that grows with every mention
SourceAttributionUncapped(source_mentions) ==
    (source_mentions * ScoreUnit) \div 2

\* min(source_mentions / 2, 1.0)
SourceAttribution(source_mentions) ==
    Min((source_mentions * ScoreUnit) \div 2, ScoreUnit)

\* sum(assessment[key] * weight for key, weight in weights.items())
OverallScore(completeness, safety_score, technical, structure, attribution) ==
    CompletenessWeight * completeness + SafetyWeight * safety_score
      + TechnicalWeight * technical + StructureWeight * structure
      + AttributionWeight * attribution

\* lines 222-227; 0.8, 0.5 and 0.7 compared in tenths of the unit
Suggestions(completeness, safety_score, technical) ==
    (IF 10 * completeness < 8 * ScoreUnit
     THEN <<"Address more query terms">> ELSE << >>)
    \o (IF 10 * safety_score < 5 * ScoreUnit
        THEN <<"Include appropriate safety warnings">> ELSE << >>)
    \o (IF 10 * technical < 7 * ScoreUnit
        THEN <<"Add specific technical details">> ELSE << >>)

\* the whole function: with no query term the division of line 183 raises
\* ZeroDivisionError before anything is returned
ValidateResponseQuality(response, query, chunks) ==
    LET query_terms == QueryTerms(query)
    IN  IF query_terms = {}
        THEN [raised |-> TRUE, error |-> "ZeroDivisionError"]
        ELSE LET addressed_terms == ExactMatches(query, response)
                 completeness ==
                     (addressed_terms * ScoreUnit) \div Cardinality(query_terms)
                 safety_mentions == SafetyMentions(response)
                 high_safety_chunks == HighSafetyChunks(chunks)
                 safety_score == SafetyScore(safety_mentions, high_safety_chunks)
                 technical == IF HasTechnicalData(response)
                              THEN ScoreUnit ELSE TechnicalWithout
                 structure == IF HasStructuredContent(response)
                              THEN ScoreUnit ELSE StructureWithout
                 attribution == SourceAttribution(SourceMentions(response))
             IN  [raised |-> FALSE,
                  assessment |->
                    [completeness_score |-> completeness,
                     safety_score |-> safety_score,
                     technical_accuracy |-> technical,
                     structure_score |-> structure,
                     source_attribution |-> attribution,
                     overall_score |->
                         OverallScore(completeness, safety_score, technical,
                                      structure, attribution),
                     issues |->
                         IF high_safety_chunks # << >> /\ safety_mentions = 0
                         THEN <<"High-safety content missing safety warnings">>
                         ELSE << >>,
                     suggestions |->
                         Suggestions(completeness, safety_score, technical)]]

(* validate_response_quality as a function of its arguments               *)

MaxQualChunks == 2

qOil == <<"o", "i", "l">>
qTorqueNote ==
    <<"1", ".", " ", "T", "o", "r", "q", "u", "e", " ", "2", "0", " ", "N",
      "m", ".", " ", "M", "a", "n", "u", "a", "l", " ", "p", "a", "g", "e",
      " ", "1", "2", ",", " ", "s", "o", "u", "r", "c", "e", ":", " ", "r",
      "e", "p", "a", "i", "r">>
qDangerHot ==
    <<"D", "a", "n", "g", "e", "r", ":", " ", "h", "o", "t", " ", "o", "i", "l">>
qSeePage == <<"S", "e", "e", " ", "P", "a", "g", "e", " ", "5">>

QualResponses == { << >>, qOil, qTorqueNote, qDangerHot, qSeePage }

QualQueries ==
    { << >>,
      <<" ", " ">>,
      <<"O", "i", "l">>,
      <<"o", "i", "l", " ", "t", "o", "r", "q", "u", "e">>,
      <<"h", "o", "t", " ", " ", "o", "i", "l", " ", "s", "e", "a", "t">> }

QualChunkLists ==
    UNION {[1..n -> {[safety_level |-> l] : l \in {1, 3}}] : n \in 0..MaxQualChunks}

InitQual ==
    /\ IdleRag
    /\ safety = IdleSafety
    /\ asm = IdleAsm
    /\ cons = IdleCons
    /\ batch = IdleBatch
    /\ rank = IdleRank
    /\ conf = IdleConf
    /\ enh = IdleEnh
    /\ fb = IdleFb
    /\ dup = IdleDup
    /\ search = IdleSearch
    /\ \E response \in QualResponses, query \in QualQueries,
          chunks \in QualChunkLists :
          qual = [response |-> response, query |-> query, chunks |-> chunks,
                  outcome |-> [raised |-> FALSE], done |-> FALSE]
    /\ vs = IdleVs

Validate ==
    /\ ~qual.done
    /\ qual' = [qual EXCEPT
                  !.outcome = ValidateResponseQuality(qual.response, qual.query,
                                                      qual.chunks),
                  !.done = TRUE]
    /\ UNCHANGED <<ragVars, safety, asm, cons, batch, rank, conf, enh, fb,
                   dup, search, vs>>

NextQual == Validate

SpecQual == InitQual /\ [][NextQual]_vars

Assessed == qual.done /\ ~qual.outcome.raised

\* C27: overall_score is 0.3 * completeness + 0.3 * safety + 0.2 *
\* technical_accuracy + 0.1 * structure + 0.1 * source_attribution; the
\* safety score is 0 whenever some chunk has safety_level >= 3 and the
\* response holds no safety keyword; source_attribution is 1.0 once there
\* are 2 or more mentions of a source.
C27_OverallIsWeightedSum ==
    Assessed =>
        LET a == qual.outcome.assessment
        IN  /\ a.overall_score
                 = 3 * a.completeness_score + 3 * a.safety_score
                     + 2 * a.technical_accuracy + a.structure_score
                     + a.source_attribution
            /\ ( /\ \E k \in DOMAIN qual.chunks : qual.chunks[k].safety_level >= 3
                 /\ \A indicator \in SafetyIndicators :
                       ~Contains(LowerText(qual.response), indicator) )
                  => a.safety_score = 0
            /\ SourceMentions(qual.response) >= 2 => a.source_attribution = ScoreUnit
            /\ SourceMentions(qual.response) = 1
                  => 2 * a.source_attribution = ScoreUnit
            /\ SourceMentions(qual.response) = 0 => a.source_attribution = 0

\* the response with three mentions of a source, technical data and
\* structure, one of two query terms and no safety keyword, against a
\* chunk of safety level 3: 0.3 * 0.5 + 0.3 * 0 + 0.2 + 0.1 + 0.1 = 0.55
C27_Witness ==
    /\ Assessed
    /\ qual.response = qTorqueNote
    /\ SourceMentions(qual.response) = 3
    /\ \E k \in DOMAIN qual.chunks : qual.chunks[k].safety_level >= 3
    /\ qual.outcome.assessment.safety_score = 0
    /\ qual.outcome.assessment.source_attribution = ScoreUnit
    /\ 2 * qual.outcome.assessment.completeness_score = ScoreUnit
    /\ qual.outcome.assessment.overall_score * 100 = 55 * 10 * ScoreUnit

ScoreInRange(score) == 0 <= score /\ score <= ScoreUnit

\* C28: validate_response_quality returns an assessment for every response,
\* query and chunk list, a query without terms included, and every
\* sub-score and the overall score lie in [0, 1].
C28_AlwaysAssessedInRange ==
    qual.done =>
        /\ ~qual.outcome.raised
        /\ LET a == qual.outcome.assessment
           IN  /\ ScoreInRange(a.completeness_score)
               /\ ScoreInRange(a.safety_score)
               /\ ScoreInRange(a.technical_accuracy)
               /\ ScoreInRange(a.structure_score)
               /\ ScoreInRange(a.source_attribution)
               /\ 0 <= a.overall_score
               /\ a.overall_score <= 10 * ScoreUnit

----------------------------------------------------------------------------
(* search_similar_chunks as a function of the store's answer: the rows in  *)
(* the store's descending order of similarity, before LIMIT is applied.    *)
(* chunk_id is the position of the row in that order.                      *)

MaxSearchRows == 7

SearchContents == {cOil, cOilFilter, cBrake}

\* the similarity of the row at each position, in 1/10000
SearchSimilarities == <<9204, 8806, 8496, 8011, 7507, 7004, 7004, 6502>>

SearchAnswers ==
    UNION { [1..n -> SearchContents] : n \in 0..MaxSearchRows }

SearchRows(contents) ==
    [i \in DOMAIN contents |->
        Row(i, contents[i], "owners", 10 + i, 1, SearchSimilarities[i])]

SearchTopKs == {1, 2}
SearchThresholds == {7000, 7004, 8500}

InitSearch ==
    /\ IdleRag
    /\ safety = IdleSafety
    /\ asm = IdleAsm
    /\ cons = IdleCons
    /\ batch = IdleBatch
    /\ rank = IdleRank
    /\ conf = IdleConf
    /\ enh = IdleEnh
    /\ fb = IdleFb
    /\ dup = IdleDup
    /\ \E contents \in SearchAnswers, top_k \in SearchTopKs,
          similarity_threshold \in SearchThresholds :
          search = [results |-> SearchRows(contents), top_k |-> top_k,
                    similarity_threshold |-> similarity_threshold,
                    similar_chunks |-> << >>, done |-> FALSE]
    /\ qual = IdleQual
    /\ vs = IdleVs

Search ==
    /\ ~search.done
    /\ search' = [search EXCEPT
                    !.similar_chunks =
                        SearchSimilarChunks(search.results, search.top_k,
                                            search.similarity_threshold),
                    !.done = TRUE]
    /\ UNCHANGED <<ragVars, safety, asm, cons, batch, rank, conf, enh, fb,
                   dup, qual, vs>>

NextSearch == Search

SpecSearch == InitSearch /\ [][NextSearch]_vars

\* at most top_k chunks, in the store's order, none of them a word-overlap
\* duplicate of another, all from the first 3 * top_k rows
SearchResultShape ==
    /\ Len(search.similar_chunks) <= search.top_k
    /\ \A i, j \in DOMAIN search.similar_chunks :
          i < j =>
             /\ search.similar_chunks[i].chunk_id < search.similar_chunks[j].chunk_id
             /\ search.similar_chunks[i].similarity
                  >= search.similar_chunks[j].similarity
             /\ ~RatioAbove(Words(search.similar_chunks[i].content),
                            Words(search.similar_chunks[j].content), 65)
    /\ \A i \in DOMAIN search.similar_chunks :
          search.similar_chunks[i].chunk_id <= 3 * search.top_k

\* C29 as stated: the shape above, and the similarity of every returned
\* chunk (in 1/1000) is >= similarity_threshold (in 1/10000).
C29_ReturnedSimilarityAtLeastThreshold ==
    search.done =>
        /\ SearchResultShape
        /\ \A i \in DOMAIN search.similar_chunks :
              10 * search.similar_chunks[i].similarity
                 >= search.similarity_threshold

\* C29 amended: the shape above; every returned chunk comes from a row
\* whose similarity is >= similarity_threshold, and the similarity it
\* carries is the row's rounded to 3 decimals, which is >= the threshold
\* rounded to 3 decimals but can be below the threshold itself.
C29_RowSimilarityAtLeastThreshold ==
    search.done =>
        /\ SearchResultShape
        /\ \A i \in DOMAIN search.similar_chunks :
              LET row == search.results[search.similar_chunks[i].chunk_id]
              IN  /\ row.similarity >= search.similarity_threshold
                  /\ search.similar_chunks[i].similarity = Round3(row.similarity)
                  /\ search.similar_chunks[i].similarity
                       >= Round3(search.similarity_threshold)

\* six rows that are duplicates of the first and a seventh that is not:
\* with top_k = 2 the seventh row is beyond LIMIT 6 and only one chunk is
\* returned
C29_Witness ==
    /\ search.done
    /\ search.top_k = 2
    /\ Len(search.results) = 7
    /\ Len(search.similar_chunks) = 1
    /\ search.results[7].similarity >= search.similarity_threshold
    /\ ~RatioAbove(Words(search.results[7].content),
                   Words(search.similar_chunks[1].content), 65)

----------------------------------------------------------------------------
(* storage/vector_search.py VectorSearch.  The cache is a function from    *)
(* cache keys to entries.  The backend is the BigQueryClient the object    *)
(* was built with; each call to it either returns chunks or raises.  The   *)
(* clock read by _get_timestamp is the number of the call being served.    *)

MaxVsCalls == 3

\* embedding[:10]
KeyPrefixLen == 10

\* three embeddings of eleven values: the first two differ in the last
\* value only
vFirst == <<1, 0, 0, 0, 0, 0, 0, 0, 0, 0, 0>>
vFirstTail == <<1, 0, 0, 0, 0, 0, 0, 0, 0, 0, 1>>
vSecond == <<0, 1, 0, 0, 0, 0, 0, 0, 0, 0, 0>>

VsEmbeddings == {vFirst, vFirstTail, vSecond}
VsMaxResults == {5}
\* safety_level: None or a level, written as the f-string of the cache key
\* renders it
VsSafetyLevels == {"None", "3"}

\* _create_cache_key (lines 90-99): the hash of the first ten values is
\* kept as the ten values themselves
CreateCacheKey(embedding, max_results, safety_level) ==
    <<SubSeq(embedding, 1, Min(KeyPrefixLen, Len(embedding))),
      max_results, safety_level>>

\* what the backend returns for a request when it does not raise
BackendChunks(query_embedding, max_results, safety_level) ==
    IF query_embedding = vSecond THEN << >>
    ELSE IF safety_level = "3" THEN <<"c4">>
    ELSE IF query_embedding = vFirst THEN <<"c1", "c2">>
    ELSE <<"c1", "c3">>

\* a search answered from the cache when the key is there
VsSearchSimilarChunksCached(v, query_embedding, max_results, safety_level, backend) ==
    LET cache_key == CreateCacheKey(query_embedding, max_results, safety_level)
    IN  IF cache_key \in DOMAIN v.cache
        THEN [v EXCEPT !.calls = v.calls + 1,
                       !.last = [op |-> "search", raised |-> FALSE,
                                 returned |-> v.cache[cache_key].chunks]]
        ELSE IF backend = "fail"
        THEN [v EXCEPT !.backend_calls = v.backend_calls + 1,
                       !.calls = v.calls + 1,
                       !.last = [op |-> "search", raised |-> TRUE,
                                 returned |-> << >>]]
        ELSE LET chunks == BackendChunks(query_embedding, max_results, safety_level)
             IN  [v EXCEPT !.backend_calls = v.backend_calls + 1,
                           !.calls = v.calls + 1,
                           !.cache = (cache_key :> [chunks |-> chunks,
                                                    timestamp |-> v.calls + 1])
                                        @@ v.cache,
                           !.last = [op |-> "search", raised |-> FALSE,
                                     returned |-> chunks]]

\* search_similar_chunks (lines 27-64): the object after the call
VsSearchSimilarChunks(v, query_embedding, max_results, safety_level, backend) ==
    IF backend = "fail"
    THEN [v EXCEPT !.backend_calls = v.backend_calls + 1,
                   !.calls = v.calls + 1,
                   !.last = [op |-> "search", raised |-> TRUE,
                             returned |-> << >>]]
    ELSE LET chunks == BackendChunks(query_embedding, max_results, safety_level)
             cache_key == CreateCacheKey(query_embedding, max_results, safety_level)
         IN  [v EXCEPT !.backend_calls = v.backend_calls + 1,
                       !.calls = v.calls + 1,
                       !.cache = (cache_key :> [chunks |-> chunks,
                                                timestamp |-> v.calls + 1])
                                    @@ v.cache,
                       !.last = [op |-> "search", raised |-> FALSE,
                                 returned |-> chunks]]

\* get_cache_stats (lines 66-88); hit_rate in hundredths:
\* min(0.75, total_entries / 100)
GetCacheStats(cache, now) ==
    IF DOMAIN cache = {}
    THEN [hit_rate |-> 0, total_entries |-> 0, last_updated |-> "None"]
    ELSE [hit_rate |-> Min(75, Cardinality(DOMAIN cache)),
          total_entries |-> Cardinality(DOMAIN cache),
          last_updated |-> now]

InitVs ==
    /\ IdleRag
    /\ safety = IdleSafety
    /\ asm = IdleAsm
    /\ cons = IdleCons
    /\ batch = IdleBatch
    /\ rank = IdleRank
    /\ conf = IdleConf
    /\ enh = IdleEnh
    /\ fb = IdleFb
    /\ dup = IdleDup
    /\ search = IdleSearch
    /\ qual = IdleQual
    /\ vs = IdleVs

VsFrame == UNCHANGED <<ragVars, safety, asm, cons, batch, rank, conf, enh, fb, dup, search, qual>>

VsSearch(query_embedding, max_results, safety_level, backend) ==
    /\ vs.calls < MaxVsCalls
    /\ vs' = VsSearchSimilarChunks(vs, query_embedding, max_results,
                                   safety_level, backend)
    /\ VsFrame

VsGetCacheStats ==
    /\ vs.calls < MaxVsCalls
    /\ vs' = [vs EXCEPT !.calls = vs.calls + 1,
                        !.last = [op |-> "stats",
                                  stats |-> GetCacheStats(vs.cache, vs.calls + 1)]]
    /\ VsFrame

\* clear_cache (lines 106-109)
VsClearCache ==
    /\ vs.calls < MaxVsCalls
    /\ vs' = [vs EXCEPT !.calls = vs.calls + 1,
                        !.cache = << >>,
                        !.last = [op |-> "clear"]]
    /\ VsFrame

VsSearchOk ==
    \E query_embedding \in VsEmbeddings, max_results \in VsMaxResults,
       safety_level \in VsSafetyLevels :
        VsSearch(query_embedding, max_results, safety_level, "ok")

VsSearchFails ==
    \E query_embedding \in VsEmbeddings, max_results \in VsMaxResults,
       safety_level \in VsSafetyLevels :
        VsSearch(query_embedding, max_results, safety_level, "fail")

NextVs == VsSearchOk \/ VsSearchFails \/ VsGetCacheStats \/ VsClearCache

SpecVs == InitVs /\ [][NextVs]_vars

\* the cache after the step differs from the cache before it in the entry
\* of exactly one key, which was added or overwritten
OneEntryWritten ==
    \E key \in DOMAIN vs'.cache :
        /\ DOMAIN vs'.cache = DOMAIN vs.cache \cup {key}
        /\ \A other \in DOMAIN vs.cache \ {key} :
              vs'.cache[other] = vs.cache[other]
        /\ vs'.cache[key].chunks = vs'.last.returned
        /\ vs'.cache[key].timestamp = vs'.calls

\* C30: the cache is never read to answer a search: every search queries
\* the backend; a successful search adds or overwrites exactly one cache
\* entry; a search whose backend call fails raises and leaves the cache as
\* it was; after clear_cache the cache is empty, and get_cache_stats then
\* reports total_entries 0 and hit_rate 0.0.
C30_CacheWrittenNeverRead ==
    [][ /\ vs'.last.op = "search" =>
            /\ vs'.backend_calls = vs.backend_calls + 1
            /\ vs'.last.raised => vs'.cache = vs.cache
            /\ ~vs'.last.raised => OneEntryWritten
        /\ vs'.last.op = "clear" => DOMAIN vs'.cache = {}
        /\ (vs.last.op = "clear" /\ vs'.last.op = "stats") =>
              /\ vs'.last.stats.total_entries = 0
              /\ vs'.last.stats.hit_rate = 0
        /\ vs'.last.op \in {"stats", "clear"} =>
              vs'.backend_calls = vs.backend_calls
        /\ vs'.last.op = "stats" => vs'.cache = vs.cache ]_vs

\* a second search with an embedding that has the same first ten values
\* has gone to the backend again and has overwritten the one entry
C30_Witness ==
    /\ vs.calls = 2
    /\ vs.backend_calls = 2
    /\ vs.last.op = "search"
    /\ ~vs.last.raised
    /\ vs.last.returned = <<"c1", "c3">>
    /\ Cardinality(DOMAIN vs.cache) = 1
    /\ \A key \in DOMAIN vs.cache : vs.cache[key].timestamp = 2

====
